---- MODULE Spec2Model ----
(***************************************************************************)
(* Model of the stablecoin arbitrage engine of trading-web3:               *)
(*   StablecoinArbitrage (run / findOpportunity / executeOpportunity),     *)
(*   QuoteService (getQuotes fan-out, filter, sort),                       *)
(*   BalanceService (getBalances / getHighestStablecoinBalance),           *)
(*   the profit and decimal helpers, and the SwapExecutor contract;        *)
(*   the four quote sources (getQuote with validation, retry and error     *)
(*   classification) and the four swap executors (approveToken,            *)
(*   estimateGas, execute, CowSwap order monitoring).                      *)
(*                                                                         *)
(* Token amounts are raw smallest-unit integers.  The fixture tokens use   *)
(* 2 and 3 decimals in place of 6 and 18 so that amounts fit the checker's *)
(* integers; the arithmetic is the source's.                               *)
(***************************************************************************)
EXTENDS Integers, Sequences, FiniteSets, TLC

VARIABLES
    config,          \* ArbitrageConfig handed to the constructor
    executors,       \* keys of the executors Map<string, SwapExecutor>
    providers,       \* QuoteService.providers, in registration order
    pc,              \* position of run()
    balances,        \* getHighestStablecoinBalance: the Map getBalances returned
    inputToken,      \* run(): balanceResult.token   (option)
    inputAmount,     \* run(): balanceResult.balance
    targetTokens,    \* run(): stablecoins without the input token
    idx,             \* findOpportunity: position of the for-of loop
    tokenOut,        \* quoteParams.tokenOut, the shared request object (option)
    pending,         \* getQuotes: provider indices whose getQuote is in flight
    settled,         \* getQuotes: provider index -> outcome of its promise
    completionOrder, \* getQuotes: provider indices in the order they settled
    quotes,          \* findOpportunity: the list getQuotes returned
    opportunity,     \* the ArbitrageOpportunity (option)
    execPc,          \* position inside SwapExecutor.execute
    swapParams,      \* SwapParams handed to execute (option)
    swapResult,      \* SwapResult returned by execute (option)
    thrown,          \* message of an exception execute threw (option)
    result,          \* ArbitrageResult returned by run() (option)
    getQuotesLog,    \* tokenOut symbol of every getQuotes call of the run
    getQuoteLog,     \* <<provider, tokenOut symbol>> of every getQuote call
    executeLog,      \* provider of every executor.execute call
    approveLog,      \* provider of every executor.approveToken call
    returned,        \* number of results run() has returned
    best,            \* QuoteService.getBestQuote: its outcome (option)
    source,          \* QuoteProvider whose getQuote is running: this.name (option)
    sourceConfig,    \* that provider's configuration (quoter set, default tier listed)
    params,          \* getQuote: the QuoteParams it was given (option)
    gqPc,            \* position inside getQuote
    feeTier,         \* getQuote: index of the fee tier being queried
    bestQuote,       \* UniswapV3QuoteProvider.getQuote: bestQuote (option)
    bestFeeTier,     \* UniswapV3QuoteProvider.getQuote: bestFeeTier
    attempt,         \* retry: attempt
    lastError,       \* retry: lastError (option)
    delays,          \* retry: the delays it has slept, in ms
    requestCount,    \* backend requests issued by this getQuote, per fee tier
    quoteOutcome,    \* what getQuote resolved or rejected with (option)
    exName,          \* SwapExecutor whose method is running: this.name (option)
    exConfig,        \* that executor's configuration
    exOp,            \* the method called: approveToken, estimateGas or execute
    exParams,        \* its arguments: SwapParams, or token and amount (option)
    exPc,            \* position inside the method
    allowance,       \* ERC20 allowance of the signer, per spender
    approvals,       \* approve transactions submitted, in order
    approveCalls,    \* approveToken calls made, in order
    swapData,        \* OneInchExecutor: response of GET /swap (option)
    submitted,       \* swap transactions and orders submitted, in order
    elapsed,         \* monitorOrder: Date.now() - startTime, in seconds
    observed,        \* monitorOrder: order statuses the polls have observed
    exOutcome,       \* what the method returned or threw (option)
    calls,           \* number of executor methods called so far
    gasAnswer,       \* estimateGas: what the underlying estimation answered (option)
    now,             \* Date.now(), in seconds
    fnCall,          \* a utility function under evaluation: its name and arguments (option)
    fnResult,        \* what that function returned (option)
    retryPc,         \* retry: position inside the call
    retryAttempt,    \* retry: the loop variable `attempt`
    retryLastError,  \* retry: `lastError` (option)
    fnOutcomes,      \* retry: what each invocation of fn did, in order
    sleeps,          \* retry: the delays slept, in order
    networkDexConfigInstance, \* config/dex: the cached NetworkDexConfig (option)
    currentChainId   \* config/dex: the chain id the cache was loaded for (option)

vars == <<config, executors, providers, pc, balances, inputToken, inputAmount,
          targetTokens, idx, tokenOut, pending, settled, completionOrder,
          quotes, opportunity, execPc, swapParams, swapResult, thrown, result,
          getQuotesLog, getQuoteLog, executeLog, approveLog, returned,
          best, source, sourceConfig, params, gqPc, feeTier, bestQuote, bestFeeTier, attempt,
          lastError, delays, requestCount, quoteOutcome,
          exName, exConfig, exOp, exParams, exPc, allowance, approvals,
          approveCalls, swapData, submitted, elapsed, observed, exOutcome, calls,
          gasAnswer, now, fnCall, fnResult,
          retryPc, retryAttempt, retryLastError, fnOutcomes, sleeps,
          networkDexConfigInstance, currentChainId>>

(***************************************************************************)
(* Option values: undefined / null is the empty tuple.                     *)
(***************************************************************************)
None == << >>
Some(x) == <<x>>
IsSome(o) == o # << >>
Get(o) == o[1]

RECURSIVE Pow10(_)
Pow10(n) == IF n = 0 THEN 1 ELSE 10 * Pow10(n - 1)

(***************************************************************************)
(* Fixtures and bounds                                                     *)
(***************************************************************************)
NumProviders == 3
NumStablecoins == 3

USDT == [symbol |-> "USDT", address |-> "0xUSDT", decimals |-> 2]
USDC == [symbol |-> "USDC", address |-> "0xUSDC", decimals |-> 2]
DAI  == [symbol |-> "DAI",  address |-> "0xDAI",  decimals |-> 3]
USDCe == [symbol |-> "USDC.e", address |-> "0xUSDCe", decimals |-> 2]
AllStablecoins == <<USDT, USDC, DAI, USDCe>>
Stablecoins == SubSeq(AllStablecoins, 1, NumStablecoins)

AllProviders == <<"Uniswap V3", "1Inch", "CowSwap", "Uniswap V4">>
RegisteredProviders == SubSeq(AllProviders, 1, NumProviders)

\* profit levels, in basis points of the input, a backend may quote
QuoteBps == {-20, 29, 30}
\* thresholds the engine is configured with
MinProfitChoices == {30, 31}
MaxSlippageBps == 50
\* raw balances an on-chain read of token t may return: nothing, dust (half a
\* unit) or a hundred whole units
BalanceValues(t) == {0, 5 * Pow10(t.decimals - 1), 100 * Pow10(t.decimals)}
\* a balanceOf read answers, or fails
BalanceReads(t) ==
    {[ok |-> FALSE, value |-> 0]} \cup {[ok |-> TRUE, value |-> v] : v \in BalanceValues(t)}
\* minBalanceThreshold: one whole unit of a 2-decimals token (the script's
\* "1 USDC minimum"), or unset
ThresholdChoices == {0, 100}

ErrApproval == "approval failed"
ErrSwap == "swap reverted"
ErrThrown == "executor crashed"
TxHash == "0xhash"

\* reason strings, as the tuple of their parts
ReasonNoBalance == <<"No stablecoin balance found above threshold">>
ReasonNoOpportunity == <<"No profitable opportunity found">>
ReasonDryRun == <<"Dry-run mode: opportunity identified but not executed">>
ReasonNoExecutor(p) == <<"No executor found for provider: ", p>>

(***************************************************************************)
(* utils/decimals.ts and utils/profit.ts                                   *)
(***************************************************************************)
\* BigInt division truncates toward zero
BigIntDiv(a, b) == IF a >= 0 THEN a \div b ELSE -((-a) \div b)

\* a variant whose scaling down rounds away from zero
normalizeDecimalsRoundUp(amount, fromDecimals, toDecimals) ==
    IF fromDecimals = toDecimals THEN amount
    ELSE IF fromDecimals > toDecimals
         THEN BigIntDiv(amount + (IF amount >= 0 THEN 1 ELSE -1)
                                 * (Pow10(fromDecimals - toDecimals) - 1),
                        Pow10(fromDecimals - toDecimals))
         ELSE amount * Pow10(toDecimals - fromDecimals)

normalizeDecimals(amount, fromDecimals, toDecimals) ==
    IF fromDecimals = toDecimals THEN amount
    ELSE IF fromDecimals > toDecimals
         THEN BigIntDiv(amount, Pow10(fromDecimals - toDecimals))
         ELSE amount * Pow10(toDecimals - fromDecimals)

\* a variant that takes the size of the difference, whatever its sign
calculateProfitBpsAbsolute(amountIn, amountOut, tokenIn, tokenOutT) ==
    LET normalizedAmountOut ==
            normalizeDecimals(amountOut, tokenOutT.decimals, tokenIn.decimals)
        difference == IF normalizedAmountOut >= amountIn
                      THEN normalizedAmountOut - amountIn
                      ELSE amountIn - normalizedAmountOut
    IN  IF amountIn = 0 THEN 0
        ELSE BigIntDiv(difference * 10000, amountIn)

calculateProfitBps(amountIn, amountOut, tokenIn, tokenOutT) ==
    LET normalizedAmountOut ==
            normalizeDecimals(amountOut, tokenOutT.decimals, tokenIn.decimals)
        difference == normalizedAmountOut - amountIn
    IN  IF amountIn = 0 THEN 0
        ELSE BigIntDiv(difference * 10000, amountIn)

\* a variant that rounds the quotient up
calculateMinAmountOutRoundUp(expectedAmountOut, slippageBps) ==
    BigIntDiv(expectedAmountOut * (10000 - slippageBps) + 9999, 10000)

calculateMinAmountOut(expectedAmountOut, slippageBps) ==
    BigIntDiv(expectedAmountOut * (10000 - slippageBps), 10000)

(***************************************************************************)
(* services/wallet/BalanceService.ts                                       *)
(***************************************************************************)
\* a variant in which one failed read voids the whole batch
getBalancesAllOrNothing(reads) ==
    [i \in DOMAIN reads |-> IF \A j \in DOMAIN reads : reads[j].ok THEN reads[i].value ELSE 0]

\* getBalances: a read that failed (Promise.allSettled 'rejected') counts 0
getBalances(reads) ==
    [i \in DOMAIN reads |-> IF reads[i].ok THEN reads[i].value ELSE 0]

\* a variant of the loop in which a later token of equal balance takes over
RECURSIVE HighestFromLastOnTies(_, _, _, _)
HighestFromLastOnTies(bals, minThreshold, i, acc) ==
    IF i > Len(bals) THEN acc
    ELSE LET balance == bals[i]
         IN  IF minThreshold # 0 /\ balance < minThreshold
             THEN HighestFromLastOnTies(bals, minThreshold, i + 1, acc)
             ELSE IF balance >= acc.maxBalance
                  THEN HighestFromLastOnTies(bals, minThreshold, i + 1,
                                             [maxBalance |-> balance, maxToken |-> i])
                  ELSE HighestFromLastOnTies(bals, minThreshold, i + 1, acc)

\* the for-loop of getHighestStablecoinBalance from position i on, with the
\* running maximum acc = [maxBalance, maxToken (index, 0 = null)]
RECURSIVE HighestFrom(_, _, _, _)
HighestFrom(bals, minThreshold, i, acc) ==
    IF i > Len(bals) THEN acc
    ELSE LET balance == bals[i]
         IN  IF minThreshold # 0 /\ balance < minThreshold
             THEN HighestFrom(bals, minThreshold, i + 1, acc)
             ELSE IF balance > acc.maxBalance
                  THEN HighestFrom(bals, minThreshold, i + 1,
                                   [maxBalance |-> balance, maxToken |-> i])
                  ELSE HighestFrom(bals, minThreshold, i + 1, acc)

\* mutant: the dust threshold is not applied
getHighestIgnoringThreshold(tokens, bals, minThreshold) ==
    LET m == HighestFrom(bals, 0, 1, [maxBalance |-> 0, maxToken |-> 0])
    IN  IF m.maxToken = 0 \/ m.maxBalance = 0 THEN None
        ELSE Some([token |-> tokens[m.maxToken], balance |-> m.maxBalance])

\* null (None) or {token, balance}, from the balances getBalances returned
getHighestStablecoinBalance(tokens, bals, minThreshold) ==
    LET m == HighestFrom(bals, minThreshold, 1, [maxBalance |-> 0, maxToken |-> 0])
    IN  IF m.maxToken = 0 \/ m.maxBalance = 0 THEN None
        ELSE Some([token |-> tokens[m.maxToken], balance |-> m.maxBalance])

(***************************************************************************)
(* services/quote/QuoteService.ts                                          *)
(***************************************************************************)
Thrown == [ok |-> FALSE, amountOut |-> 0]
Quoted(a) == [ok |-> TRUE, amountOut |-> a]

\* what a backend may answer for this request: an error, or an output amount
\* at one of the QuoteBps profit levels, in tokenOut's smallest unit
QuoteAmounts(amountIn, tokenIn, tokenOutT) ==
    { normalizeDecimals(BigIntDiv(amountIn * (10000 + b), 10000),
                        tokenIn.decimals, tokenOutT.decimals) : b \in QuoteBps }
Outcomes(amountIn, tokenIn, tokenOutT) ==
    {Thrown} \cup { Quoted(a) : a \in QuoteAmounts(amountIn, tokenIn, tokenOutT) }

RECURSIVE SeqFilterOk(_, _, _)
\* results.filter(r => r.success).map(r => r.quote), over provider order ord
SeqFilterOk(ord, provs, outcome) ==
    IF ord = << >> THEN << >>
    ELSE LET p == Head(ord)
             rest == SeqFilterOk(Tail(ord), provs, outcome)
         IN  IF outcome[p].ok
             THEN <<[provider |-> provs[p], amountOut |-> outcome[p].amountOut]>> \o rest
             ELSE rest

\* mutant: results are collected as the promises complete
CompletionOrderResults(provs, order) == order

\* Promise.all keeps the order of the promises it was given: the results are
\* in registration order whatever the order of completion
PromiseAllOrder(provs, order) == [i \in 1..Len(provs) |-> i]

\* the comparator of successfulQuotes.sort: negative when a goes first
CompareQuotes(a, b) ==
    IF a.amountOut > b.amountOut THEN -1
    ELSE IF a.amountOut < b.amountOut THEN 1 ELSE 0

\* Array.prototype.sort is stable: insert q after every element that does not
\* have to come after it
RECURSIVE InsertQuote(_, _)
InsertQuote(q, sorted) ==
    IF sorted = << >> THEN <<q>>
    ELSE IF CompareQuotes(q, Head(sorted)) < 0 THEN <<q>> \o sorted
         ELSE <<Head(sorted)>> \o InsertQuote(q, Tail(sorted))

RECURSIVE SortQuotes(_)
SortQuotes(qs) ==
    IF qs = << >> THEN << >>
    ELSE InsertQuote(qs[Len(qs)], SortQuotes(SubSeq(qs, 1, Len(qs) - 1)))

\* mutant: no per-provider catch, so one failure rejects Promise.all and the
\* caller sees no quote at all
getQuotesResultFailFast(provs, outcome, order) ==
    IF \E p \in 1..Len(provs) : ~outcome[p].ok THEN << >>
    ELSE SortQuotes(SeqFilterOk([i \in 1..Len(provs) |-> i], provs, outcome))

\* the value getQuotes resolves to once every promise has settled
getQuotesResult(provs, outcome, order) ==
    SortQuotes(SeqFilterOk(PromiseAllOrder(provs, order), provs, outcome))

ErrAllProvidersFailed ==
    "All quote providers failed. Check logs for details and verify your configuration."

\* mutant: the last element of the list is returned
getBestQuoteLast(qs) ==
    IF Len(qs) = 0
    THEN [ok |-> FALSE, quote |-> None, error |-> Some(ErrAllProvidersFailed)]
    ELSE [ok |-> TRUE, quote |-> Some(qs[Len(qs)]), error |-> None]

\* getBestQuote, from the list getQuotes resolved to: throws on the empty
\* list, otherwise returns quotes[0]
getBestQuote(qs) ==
    IF Len(qs) = 0
    THEN [ok |-> FALSE, quote |-> None, error |-> Some(ErrAllProvidersFailed)]
    ELSE [ok |-> TRUE, quote |-> Some(qs[1]), error |-> None]

(***************************************************************************)
(* strategies/arbitrage: StablecoinArbitrage                               *)
(***************************************************************************)
\* mutant: a strict comparison at the gate
MeetsThresholdStrict(profitBps, minProfitBps) == profitBps > minProfitBps

\* the gate of findOpportunity: profitBps >= this.config.minProfitBps
MeetsThreshold(profitBps, minProfitBps) == profitBps >= minProfitBps

ProfitOf(q, amountIn, tokenIn, tokenOutT) ==
    calculateProfitBps(amountIn, q.amountOut, tokenIn, tokenOutT)

\* the inner for-of loop: index of the first quote that passes the gate, 0 if none
RECURSIVE FirstProfitable(_, _, _, _, _, _)
FirstProfitable(qs, i, amountIn, tokenIn, tokenOutT, minProfitBps) ==
    IF i > Len(qs) THEN 0
    ELSE IF MeetsThreshold(ProfitOf(qs[i], amountIn, tokenIn, tokenOutT), minProfitBps)
         THEN i
         ELSE FirstProfitable(qs, i + 1, amountIn, tokenIn, tokenOutT, minProfitBps)

MakeOpportunity(q, amountIn, tokenIn, tokenOutT) ==
    [provider |-> q.provider, inputToken |-> tokenIn, outputToken |-> tokenOutT,
     amountIn |-> amountIn, expectedAmountOut |-> q.amountOut,
     profitBps |-> ProfitOf(q, amountIn, tokenIn, tokenOutT), quote |-> q]

\* a variant of the outer loop that gives up after the first target
NextTargetGivingUp(targets, i, tokenIn) ==
    IF i > 1 THEN Len(targets) + 1 ELSE i

\* the outer for-of loop skips a target with the input token's address
RECURSIVE NextTarget(_, _, _)
NextTarget(targets, i, tokenIn) ==
    IF i > Len(targets) THEN i
    ELSE IF targets[i].address = tokenIn.address
         THEN NextTarget(targets, i + 1, tokenIn)
         ELSE i

\* stablecoins.filter(t => t.address !== inputToken.address)
RECURSIVE FilterTargets(_, _)
FilterTargets(tokens, tokenIn) ==
    IF tokens = << >> THEN << >>
    ELSE IF Head(tokens).address # tokenIn.address
         THEN <<Head(tokens)>> \o FilterTargets(Tail(tokens), tokenIn)
         ELSE FilterTargets(Tail(tokens), tokenIn)

\* mutant: the match only leaves the inner loop, the next target is queried
AfterMatchBreak(i) == [pc |-> "search", idx |-> i + 1]

\* where findOpportunity goes once a quote of target i passed the gate: it
\* returns the opportunity, leaving both loops
AfterMatch(i) == [pc |-> "found", idx |-> i]

\* mutant: the dry-run flag is not consulted
AfterFoundIgnoringDryRun(dryRun) == "execute"

\* where run() goes with an opportunity in hand
AfterFound(dryRun) == IF dryRun THEN "dryRun" ELSE "execute"

\* ArbitrageResult; absent fields are None
Result(attempted, success, opp, txHash, error, reason) ==
    [attempted |-> attempted, success |-> success, opportunity |-> opp,
     transactionHash |-> txHash, error |-> error, reason |-> reason]

NoBalanceResult == Result(FALSE, FALSE, None, None, None, Some(ReasonNoBalance))
NoOpportunityResult == Result(FALSE, FALSE, None, None, None, Some(ReasonNoOpportunity))
DryRunResult(opp) == Result(FALSE, TRUE, Some(opp), None, None, Some(ReasonDryRun))
\* mutant: the missing-executor exit is reported as an attempt
NoExecutorResultAttempted(opp) ==
    Result(TRUE, FALSE, None, None, None, Some(ReasonNoExecutor(opp.provider)))
NoExecutorResult(opp) ==
    Result(FALSE, FALSE, None, None, None, Some(ReasonNoExecutor(opp.provider)))
\* mutant: the executor's error is replaced by a generic text
ExecutedResultGenericError(opp, r) ==
    Result(TRUE, r.success, Some(opp), r.transactionHash,
           IF r.success THEN None ELSE Some("Unknown error"), None)
\* executeOpportunity's return after execute resolved: error is result.error?.message
ExecutedResult(opp, r) ==
    Result(TRUE, r.success, Some(opp), r.transactionHash,
           IF IsSome(r.error) THEN Some(Get(r.error).message) ELSE None, None)
\* a variant of the catch block that drops the message
ExceptionResultSilent(opp, message) ==
    Result(TRUE, FALSE, Some(opp), None, None, None)
\* executeOpportunity's catch block
ExceptionResult(opp, message) ==
    Result(TRUE, FALSE, Some(opp), None, Some(message), None)

\* mutant: the exception of execute is not caught and run() rejects
OnExecuteExceptionRethrow(opp, message) == [pc |-> "rejected", result |-> None]

\* what the catch block of executeOpportunity does with an exception: run()
\* returns a result, it does not reject
OnExecuteException(opp, message) ==
    [pc |-> "done", result |-> Some(ExceptionResult(opp, message))]

\* SwapResult of an executor
SwapOk == [success |-> TRUE, transactionHash |-> Some(TxHash), error |-> None]
SwapFailed(message) ==
    [success |-> FALSE, transactionHash |-> None, error |-> Some([message |-> message])]

ScriptExecutors == {"Uniswap V3", "1Inch", "CowSwap"}
ExecutorChoices == {ScriptExecutors, ScriptExecutors \ {"CowSwap"}}

\* checkGasCost is on unless CHECK_GAS_COST is 'false'
ConfigChoices ==
    [minProfitBps : MinProfitChoices, maxSlippageBps : {MaxSlippageBps},
     minBalanceThreshold : ThresholdChoices, dryRun : BOOLEAN, checkGasCost : {TRUE}]

\* state of one quote source's getQuote
sourceVars == <<source, sourceConfig, params, gqPc, feeTier, bestQuote, bestFeeTier, attempt,
                lastError, delays, requestCount, quoteOutcome>>
\* state of one swap executor and of the chain it acts on
executorVars == <<exName, exConfig, exOp, exParams, exPc, allowance, approvals,
                  approveCalls, swapData, submitted, elapsed, observed, exOutcome, calls,
                  gasAnswer, now>>
\* one evaluation of a utility function
\* state of one call of retry
retryVars == <<retryPc, retryAttempt, retryLastError, fnOutcomes, sleeps>>
\* the singleton of config/dex
cacheVars == <<networkDexConfigInstance, currentChainId>>
calcVars == <<fnCall, fnResult, retryVars, cacheVars>>
\* everything outside the arbitrage engine and the aggregator's fan-out
components == <<best, sourceVars, executorVars, calcVars>>

\* Uniswap V3: fee tiers of the configuration, and the default tried first
FeeTiers == <<500, 3000, 10000>>
DefaultFeeTier == 3000

\* no quote source and no executor has been called directly
SourceIdle ==
    /\ source = None
    /\ sourceConfig = None
    /\ params = None
    /\ gqPc = "idle"
    /\ feeTier = 0
    /\ bestQuote = None
    /\ bestFeeTier = DefaultFeeTier
    /\ attempt = 0
    /\ lastError = None
    /\ delays = << >>
    /\ requestCount = << >>
    /\ quoteOutcome = None

ExecutorIdle ==
    /\ exName = None
    /\ exConfig = None
    /\ exOp = "none"
    /\ exParams = None
    /\ exPc = "idle"
    /\ approvals = << >>
    /\ approveCalls = << >>
    /\ swapData = None
    /\ submitted = << >>
    /\ elapsed = 0
    /\ observed = {}
    /\ exOutcome = None
    /\ calls = 0
    /\ gasAnswer = None
    /\ now = 0

\* no utility function is under evaluation
RetryIdle ==
    /\ retryPc = "idle"
    /\ retryAttempt = 0
    /\ retryLastError = None
    /\ fnOutcomes = << >>
    /\ sleeps = << >>
\* getDexConfig has not been called
CacheEmpty == networkDexConfigInstance = None /\ currentChainId = None
CalcIdle == fnCall = None /\ fnResult = None /\ RetryIdle /\ CacheEmpty

ComponentsIdle ==
    /\ best = None
    /\ SourceIdle
    /\ ExecutorIdle
    /\ CalcIdle
    /\ allowance = [s \in {} |-> 0]

\* the engine after construction: nothing fetched, no run in progress
EngineIdle ==
    /\ providers = RegisteredProviders
    /\ pc = "idle"
    /\ balances = << >>
    /\ inputToken = None
    /\ inputAmount = 0
    /\ targetTokens = << >>
    /\ idx = 1
    /\ tokenOut = None
    /\ pending = {}
    /\ settled = << >>
    /\ completionOrder = << >>
    /\ quotes = << >>
    /\ opportunity = None
    /\ execPc = "none"
    /\ swapParams = None
    /\ swapResult = None
    /\ thrown = None
    /\ result = None
    /\ getQuotesLog = << >>
    /\ getQuoteLog = << >>
    /\ executeLog = << >>
    /\ approveLog = << >>
    /\ returned = 0

Init ==
    /\ config \in ConfigChoices
    /\ executors \in ExecutorChoices
    /\ EngineIdle
    /\ ComponentsIdle

searchVars == <<tokenOut, pending, settled, completionOrder, quotes, opportunity>>
execVars == <<execPc, swapParams, swapResult, thrown>>
logVars == <<getQuotesLog, getQuoteLog, executeLog, approveLog>>
setup == <<config, executors, providers>>
runVars == <<inputToken, inputAmount, targetTokens, idx>>

\* run() returns r to its caller
Return(r) ==
    /\ result' = Some(r)
    /\ returned' = returned + 1
    /\ pc' = "done"

\* run(): the caller invokes run(walletAddress, signer, stablecoins)
StartRun ==
    /\ pc = "idle"
    /\ pc' = "balanceCheck"
    /\ UNCHANGED <<setup, components, balances, runVars, searchVars,
                   execVars, logVars, result, returned>>

\* every way the balanceOf reads of the stablecoins may turn out
AllReads ==
    { reads \in [1..Len(Stablecoins) ->
                    UNION {BalanceReads(Stablecoins[i]) : i \in 1..Len(Stablecoins)}] :
        \A i \in 1..Len(Stablecoins) : reads[i] \in BalanceReads(Stablecoins[i]) }

\* getHighestStablecoinBalance -> getBalances: every balanceOf read settles
\* (Promise.allSettled) and the Map of balances is built
GetBalances ==
    /\ pc = "balanceCheck"
    /\ \E reads \in AllReads : balances' = getBalances(reads)
    /\ pc' = "selectBalance"
    /\ UNCHANGED <<setup, components, runVars, searchVars, execVars, logVars, result, returned>>

\* run(): the highest balance is selected; with none the run ends, otherwise
\* the other stablecoins become the targets and findOpportunity is entered
SelectHighest ==
    /\ pc = "selectBalance"
    /\ LET balanceResult ==
               getHighestStablecoinBalance(Stablecoins, balances, config.minBalanceThreshold)
           targets == FilterTargets(Stablecoins, Get(balanceResult).token)
       IN  IF balanceResult = None
           THEN /\ Return(NoBalanceResult)
                /\ UNCHANGED <<inputToken, inputAmount, targetTokens, tokenOut>>
           ELSE /\ inputToken' = Some(Get(balanceResult).token)
                /\ inputAmount' = Get(balanceResult).balance
                /\ targetTokens' = targets
                /\ tokenOut' = IF targets = << >> THEN None ELSE Some(targets[1])
                /\ pc' = "search"
                /\ UNCHANGED <<result, returned>>
    /\ balances' = << >>
    /\ idx' = 1
    /\ UNCHANGED <<setup, components, pending, settled, completionOrder, quotes, opportunity,
                   execVars, logVars>>

\* findOpportunity: the loop is over, null is returned and run() reports it
SearchExhausted ==
    /\ pc = "search"
    /\ NextTarget(targetTokens, idx, Get(inputToken)) > Len(targetTokens)
    /\ Return(NoOpportunityResult)
    /\ UNCHANGED <<setup, components, balances, runVars, searchVars,
                   execVars, logVars>>

\* findOpportunity -> getQuotes: tokenOut of the shared request is set and
\* providers.map(...) invokes getQuote on every provider, in registration order
GetQuotesCall ==
    /\ pc = "search"
    /\ LET i == NextTarget(targetTokens, idx, Get(inputToken))
       IN  /\ i <= Len(targetTokens)
           /\ idx' = i
           /\ tokenOut' = Some(targetTokens[i])
           /\ getQuotesLog' = Append(getQuotesLog, targetTokens[i].symbol)
           /\ getQuoteLog' = getQuoteLog \o
                  [p \in 1..Len(providers) |-> <<providers[p], targetTokens[i].symbol>>]
    /\ pending' = 1..Len(providers)
    /\ settled' = [p \in 1..Len(providers) |-> Thrown]
    /\ completionOrder' = << >>
    /\ pc' = "quoting"
    /\ UNCHANGED <<setup, components, balances, inputToken, inputAmount, targetTokens, quotes, opportunity,
                   execVars, executeLog, approveLog, result, returned>>

\* one provider's getQuote settles: it resolves with a quote or throws, and
\* the per-provider try/catch turns either into a settled result
ProviderSettles ==
    /\ pc = "quoting"
    /\ \E p \in pending :
          \E o \in Outcomes(inputAmount, Get(inputToken), Get(tokenOut)) :
              /\ settled' = [settled EXCEPT ![p] = o]
              /\ pending' = pending \ {p}
              /\ completionOrder' = Append(completionOrder, p)
    /\ UNCHANGED <<setup, components, pc, balances, runVars, tokenOut,
                   quotes, opportunity, execVars, logVars, result, returned>>

\* a variant that resolves as soon as one of the n promises has settled
PromiseAllResolvedOnFirst(outstanding, n) == Cardinality(outstanding) < n

\* `await Promise.all(quotePromises)`: none of the n promises rejects, so it resolves
\* when none of them is outstanding
PromiseAllResolved(outstanding, n) == outstanding = {}

\* getQuotes: Promise.all resolved; successes are extracted, sorted, returned.
\* The promises are those of the providers mapped when getQuotes was called, the
\* first Len(settled) of the list
GetQuotesReturn ==
    /\ pc = "quoting"
    /\ PromiseAllResolved(pending, Len(settled))
    /\ quotes' = getQuotesResult(SubSeq(providers, 1, Len(settled)), settled, completionOrder)
    /\ pc' = "evaluate"
    /\ UNCHANGED <<setup, components, balances, runVars, tokenOut,
                   pending, settled, completionOrder, opportunity, execVars, logVars, result, returned>>

\* findOpportunity: the quotes of this target are examined in order; the list
\* (a loop-local) and the settled promises are dropped when the iteration ends
EvaluateQuotes ==
    /\ pc = "evaluate"
    /\ LET k == FirstProfitable(quotes, 1, inputAmount, Get(inputToken),
                                Get(tokenOut), config.minProfitBps)
       IN  IF k # 0
           THEN /\ opportunity' = Some(MakeOpportunity(quotes[k], inputAmount,
                                                       Get(inputToken), Get(tokenOut)))
                /\ pc' = AfterMatch(idx).pc
                /\ idx' = AfterMatch(idx).idx
                /\ quotes' = quotes
           ELSE /\ opportunity' = opportunity
                /\ pc' = "search"
                /\ idx' = idx + 1
                /\ quotes' = << >>
    /\ settled' = << >>
    /\ completionOrder' = << >>
    /\ UNCHANGED <<setup, components, balances, inputToken, inputAmount, targetTokens, tokenOut,
                   pending, execVars, logVars, result, returned>>

\* run(): dry-run mode reports the opportunity without executing it
DryRunReport ==
    /\ pc = "found"
    /\ AfterFound(config.dryRun) = "dryRun"
    /\ Return(DryRunResult(Get(opportunity)))
    /\ UNCHANGED <<setup, components, balances, runVars, searchVars,
                   execVars, logVars>>

\* executeOpportunity: this.executors.get(opportunity.provider) is undefined
ExecutorMissing ==
    /\ pc = "found"
    /\ AfterFound(config.dryRun) = "execute"
    /\ Get(opportunity).provider \notin executors
    /\ Return(NoExecutorResult(Get(opportunity)))
    /\ UNCHANGED <<setup, components, balances, runVars, searchVars,
                   execVars, logVars>>

\* executeOpportunity: minAmountOut is computed and executor.execute is called
ExecuteCall ==
    /\ pc = "found"
    /\ AfterFound(config.dryRun) = "execute"
    /\ Get(opportunity).provider \in executors
    /\ swapParams' = Some([tokenIn |-> Get(opportunity).inputToken,
                           tokenOut |-> Get(opportunity).outputToken,
                           amountIn |-> Get(opportunity).amountIn,
                           minAmountOut |-> calculateMinAmountOut(
                               Get(opportunity).expectedAmountOut, config.maxSlippageBps)])
    /\ executeLog' = Append(executeLog, Get(opportunity).provider)
    /\ execPc' = "approve"
    /\ pc' = "executing"
    /\ UNCHANGED <<setup, components, balances, runVars, searchVars,
                   swapResult, thrown, getQuotesLog, getQuoteLog, approveLog,
                   result, returned>>

\* SwapExecutor.execute: approveToken is called first; when it fails the
\* executor's catch turns the failure into a SwapResult
ExecutorApprove ==
    /\ pc = "executing"
    /\ execPc = "approve"
    /\ approveLog' = Append(approveLog, Get(opportunity).provider)
    /\ \E ok \in BOOLEAN :
          IF ok THEN /\ execPc' = "swap"
                     /\ swapResult' = swapResult
                ELSE /\ execPc' = "returned"
                     /\ swapResult' = Some(SwapFailed(ErrApproval))
    /\ UNCHANGED <<setup, components, pc, balances, runVars, searchVars,
                   swapParams, thrown, getQuotesLog, getQuoteLog, executeLog,
                   result, returned>>

\* SwapExecutor.execute: the swap is submitted; it confirms or fails
ExecutorSwap ==
    /\ pc = "executing"
    /\ execPc = "swap"
    /\ \E ok \in BOOLEAN :
          swapResult' = IF ok THEN Some(SwapOk) ELSE Some(SwapFailed(ErrSwap))
    /\ execPc' = "returned"
    /\ UNCHANGED <<setup, components, pc, balances, runVars, searchVars,
                   swapParams, thrown, logVars, result, returned>>

\* an executor whose execute rejects instead of returning a SwapResult
ExecutorThrows ==
    /\ pc = "executing"
    /\ execPc \in {"approve", "swap"}
    /\ thrown' = Some(ErrThrown)
    /\ execPc' = "threw"
    /\ UNCHANGED <<setup, components, pc, balances, runVars, searchVars,
                   swapParams, swapResult, logVars, result, returned>>

\* executeOpportunity: execute resolved; its SwapResult becomes the result
ExecuteReturns ==
    /\ pc = "executing"
    /\ execPc = "returned"
    /\ Return(ExecutedResult(Get(opportunity), Get(swapResult)))
    /\ UNCHANGED <<setup, components, balances, runVars, searchVars,
                   execVars, logVars>>

\* executeOpportunity: the catch block took the exception of execute
ExecuteCaught ==
    /\ pc = "executing"
    /\ execPc = "threw"
    /\ LET c == OnExecuteException(Get(opportunity), Get(thrown))
       IN  /\ pc' = c.pc
           /\ result' = c.result
           /\ returned' = IF c.pc = "done" THEN returned + 1 ELSE returned
    /\ UNCHANGED <<setup, components, balances, runVars, searchVars,
                   execVars, logVars>>

Next ==
    \/ StartRun
    \/ GetBalances
    \/ SelectHighest
    \/ SearchExhausted
    \/ GetQuotesCall
    \/ ProviderSettles
    \/ GetQuotesReturn
    \/ EvaluateQuotes
    \/ DryRunReport
    \/ ExecutorMissing
    \/ ExecuteCall
    \/ ExecutorApprove
    \/ ExecutorSwap
    \/ ExecutorThrows
    \/ ExecuteReturns
    \/ ExecuteCaught

Spec == Init /\ [][Next]_vars

(***************************************************************************)
(* utils/provider-resolver.ts, and the engine with executors registered    *)
(* under other spellings of the providers' names                           *)
(***************************************************************************)
UpperCaseLetters == "ABCDEFGHIJKLMNOPQRSTUVWXYZ"
LowerCaseLetters == "abcdefghijklmnopqrstuvwxyz"

\* String.prototype.toLowerCase, one character
toLowerCase(ch) ==
    IF \E i \in 1..Len(UpperCaseLetters) : SubSeq(UpperCaseLetters, i, i) = ch
    THEN LET i == CHOOSE k \in 1..Len(UpperCaseLetters) : SubSeq(UpperCaseLetters, k, k) = ch
         IN  SubSeq(LowerCaseLetters, i, i)
    ELSE ch

\* toLowerCase, then trim and the two replace calls: underscores, hyphens and
\* whitespace are dropped wherever they stand
RECURSIVE normalizeProviderName(_)
normalizeProviderName(name) ==
    IF name = "" THEN ""
    ELSE LET ch == toLowerCase(SubSeq(name, 1, 1))
             rest == normalizeProviderName(SubSeq(name, 2, Len(name)))
         IN  IF ch \in {"_", "-", " "} THEN rest ELSE ch \o rest

\* an executors Map whose keys spell two of the providers' names differently
RespelledExecutors == {"Uniswap V3", "1inch", "cow_swap"}

DispatchInit ==
    /\ config \in ConfigChoices
    /\ executors = RespelledExecutors
    /\ EngineIdle
    /\ ComponentsIdle

DispatchSpec == DispatchInit /\ [][Next]_vars

(***************************************************************************)
(* QuoteService.getBestQuote, called directly.  Its getQuotes call is the  *)
(* fan-out above (GetQuotesCall, ProviderSettles, GetQuotesReturn) for the *)
(* one pair of the request.                                                *)
(***************************************************************************)
ScriptConfig ==
    [minProfitBps |-> 30, maxSlippageBps |-> MaxSlippageBps,
     minBalanceThreshold |-> 100, dryRun |-> FALSE, checkGasCost |-> TRUE]

\* amounts a caller asks a quote for: fifty and a hundred whole units
RequestAmounts(t) == {50 * Pow10(t.decimals), 100 * Pow10(t.decimals)}

\* getBestQuote(params): the request is taken and getQuotes(params) is entered
GetBestQuoteCall ==
    /\ pc = "idle"
    /\ \E i \in 1..Len(Stablecoins) : \E j \in 1..Len(Stablecoins) :
          \E a \in RequestAmounts(Stablecoins[i]) :
              /\ i # j
              /\ inputToken' = Some(Stablecoins[i])
              /\ inputAmount' = a
              /\ targetTokens' = <<Stablecoins[j]>>
              /\ tokenOut' = Some(Stablecoins[j])
    /\ idx' = 1
    /\ pc' = "search"
    /\ UNCHANGED <<setup, components, balances, pending, settled, completionOrder,
                   quotes, opportunity, execVars, logVars, result, returned>>

\* getBestQuote: getQuotes resolved; the empty list throws, otherwise the
\* first quote is returned
GetBestQuoteReturn ==
    /\ pc = "evaluate"
    /\ best' = Some(getBestQuote(quotes))
    /\ pc' = "done"
    /\ UNCHANGED <<setup, sourceVars, executorVars, calcVars, balances, runVars, searchVars,
                   execVars, logVars, result, returned>>

QuoteServiceInit ==
    /\ Init
    /\ config = ScriptConfig
    /\ executors = ScriptExecutors

QuoteServiceNext ==
    \/ GetBestQuoteCall
    \/ GetQuotesCall
    \/ ProviderSettles
    \/ GetQuotesReturn
    \/ GetBestQuoteReturn

QuoteServiceSpec == QuoteServiceInit /\ [][QuoteServiceNext]_vars

\* a variant of addProvider that puts the provider in front
addProviderInFront(list, provider) == <<provider>> \o list

\* addProvider: this.providers.push(provider)
addProvider(list, provider) == Append(list, provider)

\* the providers of the repository a caller can still add
AddedProviders ==
    {AllProviders[i] : i \in DOMAIN AllProviders} \ {providers[i] : i \in DOMAIN providers}

\* addProvider(provider), at any moment: before a getQuotes call, while its promises
\* are outstanding, or after it
AddProvider ==
    /\ \E name \in AddedProviders : providers' = addProvider(providers, name)
    /\ UNCHANGED <<config, executors, components, pc, balances, runVars, searchVars,
                   execVars, logVars, result, returned>>

AggregatorNext ==
    \/ QuoteServiceNext
    \/ AddProvider

\* the aggregator with callers that also register providers
AggregatorSpec == QuoteServiceInit /\ [][AggregatorNext]_vars

(***************************************************************************)
(* types/errors.ts, utils/validation.ts, utils/retry.ts                    *)
(***************************************************************************)
\* an error value: a QuoteError, an AxiosError (code, status of the response,
\* 0 = no response) or a plain Error
QuoteError(type, provider, message) ==
    [class |-> "QuoteError", type |-> type, provider |-> provider,
     message |-> message, code |-> "", status |-> 0]
AxiosError(code, status) ==
    [class |-> "AxiosError", type |-> "", provider |-> "",
     message |-> "Request failed", code |-> code, status |-> status]
PlainError(message) ==
    [class |-> "Error", type |-> "", provider |-> "",
     message |-> message, code |-> "", status |-> 0]

QuoteErrorType ==
    {"NETWORK_ERROR", "INVALID_TOKEN", "INSUFFICIENT_LIQUIDITY", "RATE_LIMIT",
     "TIMEOUT", "PROVIDER_ERROR", "CONFIGURATION_ERROR"}

\* an address is the sequence of its characters
HexChars ==
    {"0", "1", "2", "3", "4", "5", "6", "7", "8", "9",
     "a", "b", "c", "d", "e", "f", "A", "B", "C", "D", "E", "F"}
Repeat(c, n) == [i \in 1..n |-> c]
AddressOf(c) == <<"0", "x">> \o Repeat(c, 40)

\* /^0x[a-fA-F0-9]{40}$/.test(address)
addressRegexTest(address) ==
    /\ Len(address) = 42
    /\ address[1] = "0"
    /\ address[2] = "x"
    /\ \A i \in 3..42 : address[i] \in HexChars

\* validateToken: the QuoteError it throws, None when it returns
validateToken(token, provider) ==
    IF token.address = << >>
    THEN Some(QuoteError("INVALID_TOKEN", provider, "Invalid token address"))
    ELSE IF ~addressRegexTest(token.address)
    THEN Some(QuoteError("INVALID_TOKEN", provider, "Token address format invalid"))
    ELSE IF token.decimals < 0 \/ token.decimals > 255
    THEN Some(QuoteError("INVALID_TOKEN", provider, "Invalid token decimals"))
    ELSE IF token.symbol = ""
    THEN Some(QuoteError("INVALID_TOKEN", provider, "Invalid token symbol"))
    ELSE IF token.chainId <= 0
    THEN Some(QuoteError("INVALID_TOKEN", provider, "Invalid token chainId"))
    ELSE None

\* validateAmount: the QuoteError it throws, None when it returns
validateAmount(amount, provider) ==
    IF amount <= 0
    THEN Some(QuoteError("INVALID_TOKEN", provider, "Amount must be positive"))
    ELSE None

\* the three validations at the head of every getQuote, in order
validateParams(p, provider) ==
    IF IsSome(validateToken(p.tokenIn, provider)) THEN validateToken(p.tokenIn, provider)
    ELSE IF IsSome(validateToken(p.tokenOut, provider)) THEN validateToken(p.tokenOut, provider)
    ELSE validateAmount(p.amountIn, provider)

RECURSIVE Pow(_, _)
Pow(b, n) == IF n = 0 THEN 1 ELSE b * Pow(b, n - 1)
Min(a, b) == IF a < b THEN a ELSE b

\* retry: defaults of its options
DefaultInitialDelay == 1000
DefaultBackoffMultiplier == 2
DefaultMaxDelay == 30000
\* maxRetries of every provider
MaxRetries == 3

\* a variant of the delay without the cap
RetryDelayUncapped(n, initialDelay, backoffMultiplier, maxDelay) ==
    initialDelay * Pow(backoffMultiplier, n)

\* retry: Math.min(initialDelay * Math.pow(backoffMultiplier, attempt), maxDelay)
RetryDelay(n, initialDelay, backoffMultiplier, maxDelay) ==
    Min(initialDelay * Pow(backoffMultiplier, n), maxDelay)

\* retry: after fn threw e on attempt n it rethrows when this was the last
\* attempt; whatever the error is, any earlier attempt is followed by another
retryGivesUp(n, maxRetries, e) == n = maxRetries

(***************************************************************************)
(* dex/*/quote.ts: the four quote sources                                  *)
(***************************************************************************)
Sources == {"Uniswap V3", "1Inch", "CowSwap", "Uniswap V4"}
HttpSources == {"1Inch", "CowSwap"}

RECURSIVE OtherTiers(_, _)
\* the for-of loop over feeTiers that skips the default tier
OtherTiers(tiers, default) ==
    IF tiers = << >> THEN << >>
    ELSE IF Head(tiers) = default THEN OtherTiers(Tail(tiers), default)
         ELSE <<Head(tiers)>> \o OtherTiers(Tail(tiers), default)

\* the fee tiers a getQuote of the source queries, in order
TierOrder(name) ==
    IF name = "Uniswap V3" THEN <<DefaultFeeTier>> \o OtherTiers(FeeTiers, DefaultFeeTier)
    ELSE IF name = "Uniswap V4" THEN <<DefaultFeeTier>>
    ELSE <<0>>

\* text of the errors an RPC node raises, with the markers each contains
RpcMessages ==
    {"execution reverted", "call revert exception (code=CALL_EXCEPTION)",
     "request timeout (code=TIMEOUT)", "could not detect network (code=NETWORK_ERROR)",
     "server error"}
Includes(message, marker) ==
    \/ message = "execution reverted" /\ marker = "execution reverted"
    \/ message = "call revert exception (code=CALL_EXCEPTION)" /\ marker = "CALL_EXCEPTION"
    \/ message = "request timeout (code=TIMEOUT)" /\ marker \in {"timeout", "TIMEOUT"}
    \/ message = "could not detect network (code=NETWORK_ERROR)"
          /\ marker \in {"network", "NETWORK_ERROR"}

\* what a backend answers to one request
Answer(ok, amountOut, wellFormed, error) ==
    [ok |-> ok, amountOut |-> amountOut, wellFormed |-> wellFormed, error |-> error]
NoError == PlainError("")
BackendAmounts == {99000, 100300}
HttpErrors ==
    {AxiosError("ECONNABORTED", 0), AxiosError("ECONNREFUSED", 0)}
        \cup {AxiosError("ERR_BAD_REQUEST", st) : st \in {400, 403, 404, 429}}
        \cup {AxiosError("ERR_BAD_RESPONSE", 500)}
BackendAnswers(name) ==
    IF name \in HttpSources
    THEN {Answer(TRUE, a, TRUE, NoError) : a \in BackendAmounts}
            \cup {Answer(TRUE, 0, FALSE, NoError)}
            \cup {Answer(FALSE, 0, TRUE, e) : e \in HttpErrors}
    ELSE {Answer(TRUE, a, TRUE, NoError) : a \in BackendAmounts}
            \cup {Answer(FALSE, 0, TRUE, PlainError(m)) : m \in RpcMessages}

\* the catch block of OneInchQuoteProvider.getQuote
OneInchCatch(e) ==
    IF e.class = "QuoteError" THEN e
    ELSE IF e.class = "AxiosError" /\ e.code \in {"ECONNABORTED", "ETIMEDOUT"}
    THEN QuoteError("TIMEOUT", "1Inch", "Request timeout")
    ELSE IF e.class = "AxiosError" /\ e.status = 429
    THEN QuoteError("RATE_LIMIT", "1Inch", "Rate limit exceeded")
    ELSE IF e.class = "AxiosError" /\ e.status = 400
    THEN QuoteError("INVALID_TOKEN", "1Inch", "Invalid request")
    ELSE IF e.class = "AxiosError" /\ e.status >= 500
    THEN QuoteError("PROVIDER_ERROR", "1Inch", "1Inch API server error")
    ELSE IF e.class = "AxiosError" /\ e.status = 0
    THEN QuoteError("NETWORK_ERROR", "1Inch", "Network error connecting to 1Inch API")
    ELSE QuoteError("PROVIDER_ERROR", "1Inch", e.message)

\* the catch block of CowSwapQuoteProvider.getQuote
CowSwapCatch(e) ==
    IF e.class = "QuoteError" THEN e
    ELSE IF e.class = "AxiosError" /\ e.code \in {"ECONNABORTED", "ETIMEDOUT"}
    THEN QuoteError("TIMEOUT", "CowSwap", "Request timeout")
    ELSE IF e.class = "AxiosError" /\ e.status = 429
    THEN QuoteError("RATE_LIMIT", "CowSwap", "Rate limit exceeded")
    ELSE IF e.class = "AxiosError" /\ e.status \in {400, 404}
    THEN QuoteError("INSUFFICIENT_LIQUIDITY", "CowSwap",
                    "Invalid token pair or insufficient liquidity")
    ELSE IF e.class = "AxiosError" /\ e.status >= 500
    THEN QuoteError("PROVIDER_ERROR", "CowSwap", "CowSwap API server error")
    ELSE IF e.class = "AxiosError" /\ e.status = 0
    THEN QuoteError("NETWORK_ERROR", "CowSwap", "Network error connecting to CowSwap API")
    ELSE QuoteError("PROVIDER_ERROR", "CowSwap", e.message)

\* the catch block of UniswapV3QuoteProvider.getQuote and of
\* UniswapV4QuoteProvider.getQuote
UniswapCatch(name, e) ==
    IF e.class = "QuoteError" THEN e
    ELSE IF Includes(e.message, "CALL_EXCEPTION") \/ Includes(e.message, "execution reverted")
    THEN QuoteError("INSUFFICIENT_LIQUIDITY", name,
                    "Insufficient liquidity or invalid token pair")
    ELSE IF Includes(e.message, "timeout") \/ Includes(e.message, "TIMEOUT")
    THEN QuoteError("TIMEOUT", name, "Request timeout")
    ELSE IF Includes(e.message, "network") \/ Includes(e.message, "NETWORK_ERROR")
    THEN QuoteError("NETWORK_ERROR", name, "Network error connecting to RPC")
    ELSE QuoteError("PROVIDER_ERROR", name, e.message)

\* mutant: the catch block lets the error through as it came
getQuoteCatchRethrow(name, e) == e

\* the error getQuote of the source rejects with when e reached its catch block
getQuoteCatch(name, e) ==
    IF name = "1Inch" THEN OneInchCatch(e)
    ELSE IF name = "CowSwap" THEN CowSwapCatch(e)
    ELSE UniswapCatch(name, e)

\* UniswapV3QuoteProvider.getQuoteForFeeTier swallows a revert and returns null
IsRevert(e) ==
    Includes(e.message, "CALL_EXCEPTION") \/ Includes(e.message, "execution reverted")

Resolved(name, amountOut) ==
    [ok |-> TRUE, quote |-> Some([provider |-> name, amountOut |-> amountOut]),
     error |-> None]
Rejected(e) == [ok |-> FALSE, quote |-> None, error |-> Some(e)]

\* requests a caller may pass to getQuote
RequestChainId == 137
GoodTokenIn ==
    [address |-> AddressOf("a"), decimals |-> 6, symbol |-> "USDC", chainId |-> RequestChainId]
GoodTokenOut ==
    [address |-> AddressOf("B"), decimals |-> 18, symbol |-> "DAI", chainId |-> RequestChainId]
TokenInChoices ==
    {GoodTokenIn}
        \cup {[GoodTokenIn EXCEPT !.address = a] :
                a \in {<< >>, AddressOf("g"), Repeat("a", 42), <<"0", "x">> \o Repeat("a", 39)}}
        \cup {[GoodTokenIn EXCEPT !.decimals = d] : d \in {-1, 0, 256}}
        \cup {[GoodTokenIn EXCEPT !.symbol = ""]}
        \cup {[GoodTokenIn EXCEPT !.chainId = c] : c \in {0, 1}}
TokenOutChoices ==
    {GoodTokenOut, [GoodTokenOut EXCEPT !.chainId = 1],
     [GoodTokenOut EXCEPT !.address = AddressOf("z")]}
AmountInChoices == {-1, 0, 100000000}
QuoteParamsChoices ==
    [tokenIn : TokenInChoices, tokenOut : TokenOutChoices,
     amountIn : AmountInChoices, chainId : {RequestChainId}]

\* a provider as constructed: only Uniswap V4 may lack its quoter, or the
\* default fee tier in its list
SourceConfigChoices(name) ==
    IF name = "Uniswap V4"
    THEN [quoter : BOOLEAN, defaultTierListed : BOOLEAN]
    ELSE {[quoter |-> TRUE, defaultTierListed |-> TRUE]}

\* getQuote(params) is called on a source
GetQuoteCall ==
    /\ gqPc = "idle"
    /\ source = None
    /\ \E name \in Sources :
          /\ source' = Some(name)
          /\ sourceConfig' \in {Some(c) : c \in SourceConfigChoices(name)}
          /\ requestCount' = [t \in 1..Len(TierOrder(name)) |-> 0]
    /\ params' \in {Some(p) : p \in QuoteParamsChoices}
    /\ gqPc' = "validate"
    /\ UNCHANGED <<setup, best, executorVars, calcVars, feeTier, bestQuote, bestFeeTier, attempt, lastError,
                   delays, quoteOutcome, pc, balances, runVars, searchVars, execVars,
                   logVars, result, returned>>

\* getQuote up to its first backend request: the quoter check of Uniswap V4,
\* validateToken twice, validateAmount, the fee tier lookup of Uniswap V4; what
\* is thrown reaches the catch block
GetQuoteValidate ==
    /\ gqPc = "validate"
    /\ LET name == Get(source)
           cfg == Get(sourceConfig)
           invalid == validateParams(Get(params), name)
           e == IF name = "Uniswap V4" /\ ~cfg.quoter
                THEN Some(QuoteError("CONFIGURATION_ERROR", name,
                                     "Uniswap V4 is not configured"))
                ELSE IF IsSome(invalid) THEN invalid
                ELSE IF name = "Uniswap V4" /\ ~cfg.defaultTierListed
                THEN Some(QuoteError("CONFIGURATION_ERROR", name,
                                     "Default fee tier not found in configuration"))
                ELSE None
       IN  IF IsSome(e)
           THEN /\ quoteOutcome' = Some(Rejected(getQuoteCatch(name, Get(e))))
                /\ gqPc' = "rejected"
                /\ feeTier' = feeTier
           ELSE /\ quoteOutcome' = quoteOutcome
                /\ gqPc' = "request"
                /\ feeTier' = 1
    /\ attempt' = 0
    /\ UNCHANGED <<setup, best, executorVars, calcVars, source, sourceConfig, params, bestQuote, bestFeeTier,
                   lastError, delays, requestCount, pc, balances, runVars, searchVars,
                   execVars, logVars, result, returned>>

\* one invocation of fn by retry: the backend is asked and answers.  A value
\* leaves retry and getQuote goes on (next fee tier, or its result); an error
\* is kept as lastError and retry either sleeps or, after the last attempt,
\* rethrows it into the catch block
BackendRequest ==
    /\ gqPc = "request"
    /\ requestCount' = [requestCount EXCEPT ![feeTier] = @ + 1]
    /\ \E r \in BackendAnswers(Get(source)) :
          LET name == Get(source)
              swallowed == name = "Uniswap V3" /\ ~r.ok /\ IsRevert(r.error)
              newBest == IF r.ok /\ (bestQuote = None \/ r.amountOut > Get(bestQuote))
                         THEN Some(r.amountOut) ELSE bestQuote
          IN  IF r.ok \/ swallowed
              THEN /\ lastError' = None
                   /\ attempt' = 0
                   /\ delays' = delays
                   /\ IF name = "Uniswap V3"
                      THEN /\ bestQuote' = newBest
                           /\ bestFeeTier' = IF newBest # bestQuote
                                             THEN TierOrder(name)[feeTier]
                                             ELSE bestFeeTier
                           /\ IF feeTier < Len(TierOrder(name))
                              THEN /\ feeTier' = feeTier + 1
                                   /\ gqPc' = "request"
                                   /\ quoteOutcome' = quoteOutcome
                              ELSE /\ feeTier' = feeTier
                                   /\ IF newBest = None
                                      THEN /\ gqPc' = "rejected"
                                           /\ quoteOutcome' = Some(Rejected(getQuoteCatch(name,
                                                 QuoteError("INSUFFICIENT_LIQUIDITY", name,
                                                            "No liquidity found in any fee tier"))))
                                      ELSE /\ gqPc' = "resolved"
                                           /\ quoteOutcome' = Some(Resolved(name, Get(newBest)))
                      ELSE /\ UNCHANGED <<bestQuote, bestFeeTier, feeTier>>
                           /\ IF r.wellFormed
                              THEN /\ gqPc' = "resolved"
                                   /\ quoteOutcome' = Some(Resolved(name, r.amountOut))
                              ELSE /\ gqPc' = "rejected"
                                   /\ quoteOutcome' = Some(Rejected(getQuoteCatch(name,
                                         PlainError("Cannot convert undefined to a BigInt"))))
              ELSE /\ lastError' = Some(r.error)
                   /\ UNCHANGED <<bestQuote, bestFeeTier, feeTier, attempt>>
                   /\ IF retryGivesUp(attempt, MaxRetries, r.error)
                      THEN /\ gqPc' = "rejected"
                           /\ quoteOutcome' = Some(Rejected(getQuoteCatch(name, r.error)))
                           /\ delays' = delays
                      ELSE /\ gqPc' = "backoff"
                           /\ quoteOutcome' = quoteOutcome
                           /\ delays' = Append(delays,
                                 RetryDelay(attempt, DefaultInitialDelay,
                                            DefaultBackoffMultiplier, DefaultMaxDelay))
    /\ UNCHANGED <<setup, best, executorVars, calcVars, source, sourceConfig, params, pc, balances,
                   runVars, searchVars, execVars, logVars, result, returned>>

\* retry: the sleep is over, the loop goes to its next attempt
RetrySleepDone ==
    /\ gqPc = "backoff"
    /\ attempt' = attempt + 1
    /\ gqPc' = "request"
    /\ UNCHANGED <<setup, best, executorVars, calcVars, source, sourceConfig, params, feeTier,
                   bestQuote, bestFeeTier, lastError, delays, requestCount, quoteOutcome, pc,
                   balances, runVars, searchVars, execVars, logVars, result, returned>>

QuoteSourceInit ==
    /\ Init
    /\ config = ScriptConfig
    /\ executors = ScriptExecutors

QuoteSourceNext ==
    \/ GetQuoteCall
    \/ GetQuoteValidate
    \/ BackendRequest
    \/ RetrySleepDone

QuoteSourceSpec == QuoteSourceInit /\ [][QuoteSourceNext]_vars

(***************************************************************************)
(* Swap executors: approveToken, estimateGas, execute                      *)
(***************************************************************************)
ExecutorNames == {"Uniswap V3", "Uniswap V4", "1Inch", "CowSwap"}
\* the executors whose swap is a transaction the wallet sends to the chain
OnChainExecutors == {"Uniswap V3", "Uniswap V4", "1Inch"}
ExecutorOps == {"approveToken", "estimateGas", "execute"}

\* calls made on one executor object in one behaviour
MaxCalls == 2
\* orderTimeout of the CowSwap executor under test, in seconds
OrderTimeout == 12
\* pollInterval of monitorOrder, in seconds
PollInterval == 5
\* time one status request can take, in seconds
PollDurations == {0, 1}

Signer == "0xSigner"
OrderId == "0xorder"

\* the address each executor asks the token to approve
Spender(name) ==
    CASE name = "Uniswap V3" -> "0xV3Router"
      [] name = "Uniswap V4" -> "0xUniversalRouter"
      [] name = "1Inch" -> "0x1InchRouter"
      [] name = "CowSwap" -> "0xVaultRelayer"

Spenders == {Spender(n) : n \in ExecutorNames}

\* allowances the wallet has granted before the executor is first used
AllowanceChoices == {[s \in Spenders |-> a] : a \in {0, 100, 200}}

\* v4Config as far as the executor reads it; the other executors have no such checks
ExecutorConfigChoices(name) ==
    IF name = "Uniswap V4"
    THEN [routerConfigured : BOOLEAN, defaultTierListed : BOOLEAN]
    ELSE {[routerConfigured |-> TRUE, defaultTierListed |-> TRUE]}

\* SwapParams; approveToken(token, amount, signer) reads tokenIn, amountIn, signer
\* DEADLINE_SECONDS' default
DeadlineSeconds == 300

\* seconds a transaction can take to be mined: within the margin, or beyond it
ConfirmationTimes == {15, 400}

\* the requests a caller builds when the clock reads t: executeOpportunity takes
\* `Math.floor(Date.now() / 1000) + deadlineSeconds` as the deadline
SwapParamsChoices(t) ==
    [tokenIn : {"USDC"}, tokenOut : {"USDT"}, amountIn : {100, 200},
     minAmountOut : {99}, deadline : {t + DeadlineSeconds}, signer : {Signer}]

\* how a call on an executor ends
Returned(value) == [threw |-> FALSE, value |-> value, error |-> None]
Threw(message) == [threw |-> TRUE, value |-> None, error |-> Some([message |-> message])]

SwapSuccess(id) == [success |-> TRUE, transactionHash |-> id, error |-> None]

\* a variant of execute's catch block that lets the error escape
OnExecuteFailureRethrow(message) ==
    Threw(message)

\* execute's catch block: the error becomes a failed SwapResult
OnExecuteFailure(message) ==
    Returned(Some(SwapFailed(message)))

\* a variant of the allowance test that always approves
NeedsApprovalAlways(currentAllowance, amount) ==
    TRUE

\* approveToken: `if (currentAllowance >= amount) return`
NeedsApproval(currentAllowance, amount) ==
    ~(currentAllowance >= amount)

\* a variant of estimateGas's catch block that lets the error escape
OnEstimateFailureRethrow(name) ==
    Threw("estimation failed")

\* estimateGas's catch block: the executor's default
OnEstimateFailure(name) ==
    Returned(Some(IF name = "Uniswap V4" THEN 400000 ELSE 300000))

\* gas figures an estimation can answer
GasEstimates == {150000}

\* a variant of the status test that takes a cancelled order for a filled one
PollVerdictCancelledFills(answer) ==
    IF answer \in {"fulfilled", "cancelled"} THEN "success"
    ELSE IF answer \in {"expired", "error"} THEN "failure"
    ELSE "wait"

\* monitorOrder's loop body: what one answer of the status request leads to
PollVerdict(answer) ==
    IF answer = "fulfilled" THEN "success"
    ELSE IF answer \in {"cancelled", "expired", "error"} THEN "failure"
    ELSE "wait"

\* 1Inch: the slippage percentage sent with the swap request
calculateSlippagePercentage(p) == 1

\* the minimum return the 1Inch API encodes in the transaction it answers:
\* the quoted amount less the requested slippage percentage
OneInchMinReturn(toAmount, slippage) == (toAmount * (100 - slippage)) \div 100

\* answers of GET /swap: a failure after the retries, or a response
SwapDataChoices(p) ==
    {None} \cup
    {Some([from |-> f, to |-> t, data |-> d, toAmount |-> a,
           minReturn |-> OneInchMinReturn(a, calculateSlippagePercentage(p))]) :
        f \in {p.signer, "0xOther"}, t \in {Spender("1Inch"), "0xOther"},
        d \in {"0x", "0xdata"},
        a \in {p.minAmountOut - 1, p.minAmountOut, p.minAmountOut + 10}}

\* validateTransactionData: the message it throws, or None
validateTransactionData(data, p) ==
    IF data.from # p.signer THEN Some("Transaction 'from' address mismatch")
    ELSE IF data.toAmount < p.minAmountOut THEN Some("Output amount is less than minimum")
    ELSE IF data.data = "0x" THEN Some("Invalid transaction data received from 1Inch API")
    ELSE None

\* statuses GET /api/v1/orders/{id} answers, or a failed request
OrderStatuses == {"open", "fulfilled", "cancelled", "expired"}
PollAnswers == OrderStatuses \cup {"error"}

\* a call of approveToken as the log keeps it
ApproveCall(name, p, seen, sent, ended) ==
    [call |-> calls, spender |-> Spender(name), amount |-> p.amountIn, seen |-> seen,
     swapsBefore |-> Len(submitted), submitted |-> sent, confirmed |-> FALSE,
     ended |-> ended]

\* a variant in which execute goes on to the swap whatever approveToken did
AfterApproveIgnoringFailure(op, failure) ==
    IF op = "approveToken"
    THEN [exPc |-> "idle",
          exOutcome |-> Some(IF IsSome(failure) THEN Threw(Get(failure)) ELSE Returned(None))]
    ELSE [exPc |-> "swap", exOutcome |-> None]

\* where the caller of approveToken goes on: approveToken called directly ends the
\* call; inside execute a return leads to the swap and a throw to the catch block
AfterApprove(op, failure) ==
    IF op = "approveToken"
    THEN [exPc |-> "idle",
          exOutcome |-> Some(IF IsSome(failure) THEN Threw(Get(failure)) ELSE Returned(None))]
    ELSE IF IsSome(failure)
         THEN [exPc |-> "idle", exOutcome |-> Some(OnExecuteFailure(Get(failure)))]
         ELSE [exPc |-> "swap", exOutcome |-> None]

\* what approveToken meets outside the program
ApproveEnv(name) ==
    {"ok", "allowanceReadFails", "approveRejected"} \cup
    (IF name = "1Inch" THEN {"spenderUnavailable"} ELSE {})

\* the variables no executor writes
outsideExecutor == <<setup, best, sourceVars, calcVars, pc, balances, runVars, searchVars, execVars,
                     logVars, result, returned>>

\* a caller invokes one operation of the executor; the clock counts the seconds
\* from this moment on, as nothing in the executors depends on the epoch
ExecutorCall ==
    /\ exPc = "idle"
    /\ calls < MaxCalls
    /\ now' = 0
    /\ \E name \in ExecutorNames, op \in ExecutorOps, p \in SwapParamsChoices(now') :
         /\ IsSome(exName) => name = Get(exName)
         /\ \E cfg \in ExecutorConfigChoices(name) :
              /\ IsSome(exConfig) => cfg = Get(exConfig)
              /\ exConfig' = Some(cfg)
         /\ exName' = Some(name)
         /\ exOp' = op
         /\ exParams' = Some(p)
         /\ exPc' = IF op = "estimateGas" THEN "estimate" ELSE "approve"
    /\ calls' = calls + 1
    /\ exOutcome' = None
    /\ swapData' = None
    /\ elapsed' = 0
    /\ observed' = {}
    /\ gasAnswer' = None
    /\ UNCHANGED <<allowance, approvals, approveCalls, submitted, outsideExecutor>>

\* the underlying estimation (estimateGas of the router call, or GET /swap of
\* 1Inch): a gas figure, or a failure
EstimationOk(gas) == [ok |-> TRUE, gas |-> gas]
EstimationFailed == [ok |-> FALSE, gas |-> 0]

\* estimateGas, whole: the estimation's answer, or the default when it fails;
\* CowSwap makes no estimation
EstimateGas ==
    /\ exPc = "estimate"
    /\ LET name == Get(exName)
           cfg == Get(exConfig)
       IN  \E answer \in {EstimationOk(g) : g \in GasEstimates} \cup {EstimationFailed} :
             LET got == IF ~cfg.routerConfigured \/ ~cfg.defaultTierListed
                        THEN EstimationFailed
                        ELSE answer
             IN  IF name = "CowSwap"
                 THEN /\ exOutcome' = Some(Returned(Some(50000)))
                      /\ UNCHANGED gasAnswer
                 ELSE /\ gasAnswer' = Some(got)
                      /\ exOutcome' = Some(IF got.ok THEN Returned(Some(got.gas))
                                           ELSE OnEstimateFailure(name))
    /\ exPc' = "idle"
    /\ UNCHANGED <<exName, exConfig, exOp, exParams, allowance, approvals, approveCalls,
                   swapData, submitted, elapsed, observed, calls, now, outsideExecutor>>

\* approveToken up to the approval it sends: read the allowance, return when it
\* covers the amount, else send approve(spender, amount)
ApproveTokenCheck ==
    /\ exPc = "approve"
    /\ LET name == Get(exName)
           p == Get(exParams)
           sp == Spender(name)
       IN  \E env \in ApproveEnv(name) :
             LET failure ==
                     IF ~Get(exConfig).routerConfigured
                     THEN Some("Universal Router address not configured")
                     ELSE IF env = "spenderUnavailable" THEN Some("spender request failed")
                     ELSE IF env = "allowanceReadFails" THEN Some("allowance call failed")
                     ELSE IF ~NeedsApproval(allowance[sp], p.amountIn) THEN None
                     ELSE IF env = "approveRejected" THEN Some("approve rejected")
                     ELSE None
                 read == Get(exConfig).routerConfigured
                         /\ env \notin {"spenderUnavailable", "allowanceReadFails"}
                 sends == failure = None /\ NeedsApproval(allowance[sp], p.amountIn)
                 seen == IF read THEN allowance[sp] ELSE -1
             IN  IF sends
                 THEN /\ approvals' = Append(approvals, [spender |-> sp, amount |-> p.amountIn])
                      /\ approveCalls' = Append(approveCalls,
                                                ApproveCall(name, p, seen, 1, "running"))
                      /\ exPc' = "approveWait"
                      /\ UNCHANGED exOutcome
                 ELSE /\ approveCalls' =
                            Append(approveCalls,
                                   ApproveCall(name, p, seen, 0,
                                               IF IsSome(failure) THEN "threw" ELSE "returned"))
                      /\ exPc' = AfterApprove(exOp, failure).exPc
                      /\ exOutcome' = AfterApprove(exOp, failure).exOutcome
                      /\ UNCHANGED approvals
    /\ UNCHANGED <<exName, exConfig, exOp, exParams, allowance, swapData, submitted,
                   elapsed, observed, calls, gasAnswer, now, outsideExecutor>>

\* approveToken: `await tx.wait()` of the approval, confirmed or reverted
ApproveTokenWait ==
    /\ exPc = "approveWait"
    /\ LET p == Get(exParams)
           sp == Spender(Get(exName))
           n == Len(approveCalls)
       IN  \E confirmed \in BOOLEAN, d \in ConfirmationTimes :
             LET failure == IF confirmed THEN None ELSE Some("approval reverted")
             IN  /\ now' = now + d
                 /\ allowance' = IF confirmed THEN [allowance EXCEPT ![sp] = p.amountIn]
                                 ELSE allowance
                 /\ approveCalls' =
                       [approveCalls EXCEPT ![n].confirmed = confirmed,
                                            ![n].ended = IF confirmed THEN "returned"
                                                         ELSE "threw"]
                 /\ exPc' = AfterApprove(exOp, failure).exPc
                 /\ exOutcome' = AfterApprove(exOp, failure).exOutcome
    /\ UNCHANGED <<exName, exConfig, exOp, exParams, approvals, swapData, submitted,
                   elapsed, observed, calls, gasAnswer, outsideExecutor>>

\* a swap the executor hands to the chain (or, for CowSwap, to the order book)
SwapTx(name, kind, to, p, floor, deadline) ==
    [call |-> calls, executor |-> name, kind |-> kind, to |-> to, amountIn |-> p.amountIn,
     amountOutMinimum |-> floor, deadline |-> deadline, request |-> p, at |-> now]

\* execute's failure exit, from any step after the approval
ExecuteFails(message) ==
    /\ exPc' = "idle"
    /\ exOutcome' = Some(OnExecuteFailure(message))

\* Uniswap V3 execute: router.exactInputSingle(swapParams)
ExactInputSingle ==
    /\ exPc = "swap"
    /\ Get(exName) = "Uniswap V3"
    /\ LET p == Get(exParams)
       IN  \E sent \in BOOLEAN :
             IF sent
             THEN /\ submitted' = Append(submitted,
                                         SwapTx("Uniswap V3", "tx", Spender("Uniswap V3"), p,
                                                Some(p.minAmountOut), None)
                                            @@ [fee |-> DefaultFeeTier])
                  /\ exPc' = "swapWait"
                  /\ UNCHANGED exOutcome
             ELSE /\ ExecuteFails("exactInputSingle rejected")
                  /\ UNCHANGED submitted
    /\ UNCHANGED <<exName, exConfig, exOp, exParams, allowance, approvals, approveCalls,
                   swapData, elapsed, observed, calls, gasAnswer, now, outsideExecutor>>

\* Uniswap V4 execute: fee tier lookup, then router.execute(commands, inputs, deadline)
RouterExecute ==
    /\ exPc = "swap"
    /\ Get(exName) = "Uniswap V4"
    /\ LET p == Get(exParams)
       IN  \E sent \in BOOLEAN :
             IF ~Get(exConfig).defaultTierListed
             THEN /\ ExecuteFails("Default fee tier not found")
                  /\ UNCHANGED submitted
             ELSE IF sent
             THEN /\ submitted' = Append(submitted,
                                         SwapTx("Uniswap V4", "tx", Spender("Uniswap V4"), p,
                                                Some(p.minAmountOut), Some(p.deadline)))
                  /\ exPc' = "swapWait"
                  /\ UNCHANGED exOutcome
             ELSE /\ ExecuteFails("execute rejected")
                  /\ UNCHANGED submitted
    /\ UNCHANGED <<exName, exConfig, exOp, exParams, allowance, approvals, approveCalls,
                   swapData, elapsed, observed, calls, gasAnswer, now, outsideExecutor>>

\* 1Inch execute: getSwapData, validateTransactionData, signer.sendTransaction
OneInchSwap ==
    /\ exPc = "swap"
    /\ Get(exName) = "1Inch"
    /\ LET p == Get(exParams)
       IN  \E answer \in SwapDataChoices(p), sent \in BOOLEAN :
             /\ swapData' = answer
             /\ IF answer = None
                THEN /\ ExecuteFails("swap data request failed")
                     /\ UNCHANGED submitted
                ELSE IF IsSome(validateTransactionData(Get(answer), p))
                THEN /\ ExecuteFails(Get(validateTransactionData(Get(answer), p)))
                     /\ UNCHANGED submitted
                ELSE IF sent
                THEN /\ submitted' = Append(submitted,
                                            SwapTx("1Inch", "tx", Get(answer).to, p,
                                                   Some(Get(answer).minReturn), None))
                     /\ exPc' = "swapWait"
                     /\ UNCHANGED exOutcome
                ELSE /\ ExecuteFails("sendTransaction rejected")
                     /\ UNCHANGED submitted
    /\ UNCHANGED <<exName, exConfig, exOp, exParams, allowance, approvals, approveCalls,
                   elapsed, observed, calls, gasAnswer, now, outsideExecutor>>

\* the on-chain executors' `await tx.wait()`: a receipt, a revert, or no receipt
TxWait ==
    /\ exPc = "swapWait"
    /\ LET p == Get(exParams)
           sp == Spender(Get(exName))
       IN  \E receipt \in {"mined", "reverted", "null"}, d \in ConfirmationTimes :
             /\ now' = now + d
             /\ IF receipt = "mined"
                THEN /\ exOutcome' = Some(Returned(Some(SwapSuccess(Some(TxHash)))))
                     /\ allowance' = [allowance EXCEPT ![sp] = @ - p.amountIn]
                ELSE /\ exOutcome' =
                           Some(OnExecuteFailure(IF receipt = "reverted"
                                                 THEN "transaction reverted"
                                                 ELSE "Transaction receipt not available"))
                     /\ UNCHANGED allowance
    /\ exPc' = "idle"
    /\ UNCHANGED <<exName, exConfig, exOp, exParams, approvals, approveCalls, swapData,
                   submitted, elapsed, observed, calls, gasAnswer, outsideExecutor>>

\* CowSwap execute: createOrder (fee quote, sign, POST /api/v1/orders with retry)
CreateOrder ==
    /\ exPc = "swap"
    /\ Get(exName) = "CowSwap"
    /\ LET p == Get(exParams)
       IN  \E step \in {"posted", "signingFails", "postFails"} :
             IF step = "posted"
             THEN /\ submitted' = Append(submitted,
                                         SwapTx("CowSwap", "order", "orderbook", p,
                                                Some(p.minAmountOut), Some(p.deadline)))
                  /\ exPc' = "monitor"
                  /\ UNCHANGED exOutcome
             ELSE /\ ExecuteFails(step)
                  /\ UNCHANGED submitted
    /\ elapsed' = 0
    /\ UNCHANGED <<exName, exConfig, exOp, exParams, allowance, approvals, approveCalls,
                   swapData, observed, calls, gasAnswer, now, outsideExecutor>>

\* monitorOrder: one pass of the loop while the timeout has not elapsed
PollOrder ==
    /\ exPc = "monitor"
    /\ elapsed < OrderTimeout
    /\ LET p == Get(exParams)
           sp == Spender("CowSwap")
       IN  \E answer \in PollAnswers, d \in PollDurations :
             /\ elapsed' = elapsed + d
             /\ now' = now + d
             /\ observed' = observed \cup {answer}
             /\ CASE PollVerdict(answer) = "success" ->
                       /\ exOutcome' = Some(Returned(Some(SwapSuccess(Some(OrderId)))))
                       /\ exPc' = "idle"
                       /\ allowance' = [allowance EXCEPT ![sp] = @ - p.amountIn]
                  [] PollVerdict(answer) = "failure" ->
                       /\ ExecuteFails(IF answer = "error" THEN "status request failed"
                                       ELSE "Order " \o answer)
                       /\ UNCHANGED allowance
                  [] OTHER ->
                       /\ exPc' = "sleep"
                       /\ UNCHANGED <<exOutcome, allowance>>
    /\ UNCHANGED <<exName, exConfig, exOp, exParams, approvals, approveCalls, swapData,
                   submitted, calls, gasAnswer, outsideExecutor>>

\* monitorOrder: `await this.sleep(pollInterval)`
PollSleep ==
    /\ exPc = "sleep"
    /\ elapsed' = elapsed + PollInterval
    /\ now' = now + PollInterval
    /\ exPc' = "monitor"
    /\ UNCHANGED <<exName, exConfig, exOp, exParams, allowance, approvals, approveCalls,
                   swapData, submitted, observed, exOutcome, calls, gasAnswer, outsideExecutor>>

\* monitorOrder: the loop condition fails, the timeout error reaches execute's catch
MonitorTimeout ==
    /\ exPc = "monitor"
    /\ ~(elapsed < OrderTimeout)
    /\ ExecuteFails("CowSwap order timeout")
    /\ UNCHANGED <<exName, exConfig, exOp, exParams, allowance, approvals, approveCalls,
                   swapData, submitted, elapsed, observed, calls, gasAnswer, now, outsideExecutor>>

ExecutorInit ==
    /\ config = ScriptConfig
    /\ executors = ScriptExecutors
    /\ EngineIdle
    /\ best = None
    /\ SourceIdle
    /\ ExecutorIdle
    /\ CalcIdle
    /\ allowance \in AllowanceChoices

ExecutorNext ==
    \/ ExecutorCall
    \/ EstimateGas
    \/ ApproveTokenCheck
    \/ ApproveTokenWait
    \/ ExactInputSingle
    \/ RouterExecute
    \/ OneInchSwap
    \/ TxWait
    \/ CreateOrder
    \/ PollOrder
    \/ PollSleep
    \/ MonitorTimeout

ExecutorSpec == ExecutorInit /\ [][ExecutorNext]_vars

\* a step of the call in progress
CallStep == exPc # "idle" /\ ExecutorNext

\* the same executor when the call in progress always gets its next step: the
\* requests, receipts and timers it awaits all settle
ExecutorFairSpec == ExecutorSpec /\ WF_vars(CallStep)

(***************************************************************************)
(* Utility functions evaluated on their own                                *)
(***************************************************************************)
\* the variables an evaluation of a utility function leaves alone
outsideCalc == <<setup, best, sourceVars, executorVars, pc, balances, runVars, searchVars,
                 execVars, logVars, result, returned, retryVars, cacheVars>>

\* largest of the small expected amounts tried
MaxExpected == 12
\* expected output amounts: every small one, and some around 10000
ExpectedAmounts == 0..MaxExpected \cup {9999, 10000, 10001, 123457}
\* slippage tolerances in basis points, from none to all
SlippageChoices == {0, 1, 50, 5000, 9999, 10000}

\* calculateMinAmountOut on one amount and two tolerances
MinAmountOutCalls ==
    [fn : {"calculateMinAmountOut"}, x : ExpectedAmounts, bps : SlippageChoices,
     bps2 : SlippageChoices]

ApplyCalculateMinAmountOut ==
    /\ IsSome(fnCall) /\ fnResult = None
    /\ Get(fnCall).fn = "calculateMinAmountOut"
    /\ fnResult' = Some(<<calculateMinAmountOut(Get(fnCall).x, Get(fnCall).bps),
                          calculateMinAmountOut(Get(fnCall).x, Get(fnCall).bps2)>>)
    /\ UNCHANGED <<fnCall, outsideCalc>>

\* amounts for profit calculations: every small one, and some around 10000
ProfitAmounts == 0..MaxExpected \cup {9999, 10000, 10001, 10030}

\* calculateProfitBps on one input amount and two output amounts, between tokens of
\* equal and of different decimals
ProfitCalls ==
    [fn : {"calculateProfitBps"}, amountIn : {0, 1, 3, 100, 10000}, out : ProfitAmounts,
     out2 : ProfitAmounts, tokenIn : {USDT, DAI}, tokenOut : {USDT, DAI}]

ApplyCalculateProfitBps ==
    /\ IsSome(fnCall) /\ fnResult = None
    /\ Get(fnCall).fn = "calculateProfitBps"
    /\ LET c == Get(fnCall)
       IN  fnResult' = Some(<<calculateProfitBps(c.amountIn, c.out, c.tokenIn, c.tokenOut),
                              calculateProfitBps(c.amountIn, c.out2, c.tokenIn, c.tokenOut)>>)
    /\ UNCHANGED <<fnCall, outsideCalc>>

\* most decimals of a token tried
MaxDecimals == 3
\* amounts to normalize, negative ones included
NormalizeAmounts == 0..MaxExpected \cup {-15, -1, 9999, 123457}

\* normalizeDecimals there and back: from d1 to d2, and the result from d2 to d1
NormalizeCalls ==
    [fn : {"normalizeDecimals"}, a : NormalizeAmounts, d1 : 0..MaxDecimals,
     d2 : 0..MaxDecimals]

ApplyNormalizeDecimals ==
    /\ IsSome(fnCall) /\ fnResult = None
    /\ Get(fnCall).fn = "normalizeDecimals"
    /\ LET c == Get(fnCall)
           there == normalizeDecimals(c.a, c.d1, c.d2)
       IN  fnResult' = Some(<<there, normalizeDecimals(there, c.d2, c.d1)>>)
    /\ UNCHANGED <<fnCall, outsideCalc>>

\* A bigint too large for the checker's integers, kept as m * 10^e
Scaled(m, e) == [m |-> m, e |-> e]
\* m * 10^e at the exponent c <= e
AtExponent(x, c) == x.m * Pow10(x.e - c)
LeastExponent(x, y) == IF x.e <= y.e THEN x.e ELSE y.e

\* normalizeDecimals on such amounts
normalizeDecimalsScaled(amount, fromDecimals, toDecimals) ==
    IF fromDecimals = toDecimals THEN amount
    ELSE IF fromDecimals > toDecimals
         THEN IF amount.e >= fromDecimals - toDecimals
              THEN Scaled(amount.m, amount.e - (fromDecimals - toDecimals))
              ELSE Scaled(BigIntDiv(amount.m,
                                    Pow10(fromDecimals - toDecimals - amount.e)), 0)
         ELSE Scaled(amount.m, amount.e + (toDecimals - fromDecimals))

\* a variant that multiplies the difference by 100000
calculateProfitBpsScaledTenfold(amountIn, amountOut, tokenIn, tokenOutT) ==
    LET normalizedAmountOut ==
            normalizeDecimalsScaled(amountOut, tokenOutT.decimals, tokenIn.decimals)
        c == LeastExponent(normalizedAmountOut, amountIn)
        difference == AtExponent(normalizedAmountOut, c) - AtExponent(amountIn, c)
    IN  IF amountIn.m = 0 THEN 0
        ELSE BigIntDiv(difference * 100000, AtExponent(amountIn, c))

\* calculateProfitBps on such amounts: difference and amountIn are both taken at
\* their common power of ten, which leaves the quotient as it is
calculateProfitBpsScaled(amountIn, amountOut, tokenIn, tokenOutT) ==
    LET normalizedAmountOut ==
            normalizeDecimalsScaled(amountOut, tokenOutT.decimals, tokenIn.decimals)
        c == LeastExponent(normalizedAmountOut, amountIn)
        difference == AtExponent(normalizedAmountOut, c) - AtExponent(amountIn, c)
    IN  IF amountIn.m = 0 THEN 0
        ELSE BigIntDiv(difference * 10000, AtExponent(amountIn, c))

\* whole units of output quoted for 1000 units of input: from LeastUnitsOut up
LeastUnitsOut == 990
MostUnitsOut == 1010

\* findOpportunity's test of one quote: 1000 or 20000 whole units of a 6-decimal
\* token in, a number of whole units of a 6- or 18-decimal token out (around 1000,
\* and just below and above 20000), a minimum profit in bps
ScenarioCalls ==
    [fn : {"findOpportunity"}, unitsIn : {1000, 20000}, decimalsIn : {6},
     unitsOut : LeastUnitsOut..MostUnitsOut \cup {19999, 20000, 20010},
     decimalsOut : {6, 18},
     minProfitBps : {0, 1, 30, 31, 40, 41}]

ApplyProfitScenario ==
    /\ IsSome(fnCall) /\ fnResult = None
    /\ Get(fnCall).fn = "findOpportunity"
    /\ LET c == Get(fnCall)
           profitBps == calculateProfitBpsScaled(Scaled(c.unitsIn, c.decimalsIn),
                                                 Scaled(c.unitsOut, c.decimalsOut),
                                                 [decimals |-> c.decimalsIn],
                                                 [decimals |-> c.decimalsOut])
       IN  fnResult' = Some([profitBps |-> profitBps,
                             accepted |-> MeetsThreshold(profitBps, c.minProfitBps)])
    /\ UNCHANGED <<fnCall, outsideCalc>>

\* raw balances a wallet may hold around a threshold of MinThreshold
MinThreshold == 100
WalletBalances == {0, MinThreshold - 1, MinThreshold, MinThreshold + 1}
WalletReads ==
    {[ok |-> FALSE, value |-> 0]} \cup {[ok |-> TRUE, value |-> v] : v \in WalletBalances}

\* getHighestStablecoinBalance(wallet, tokens, minThreshold) with the answers
\* the balanceOf reads of the tokens get; minThreshold 0 stands for none
HighestBalanceCalls ==
    [fn : {"getHighestStablecoinBalance"},
     reads : [1..Len(Stablecoins) -> WalletReads],
     minThreshold : {0, MinThreshold}]

\* getBalances(wallet, tokens) with the answers the balanceOf reads get
GetBalancesCalls ==
    [fn : {"getBalances"}, reads : [1..Len(Stablecoins) -> WalletReads]]

\* Promise.allSettled does not reject and the loop over its results does not
\* throw: the call returns the map
ApplyGetBalances ==
    /\ IsSome(fnCall) /\ fnResult = None
    /\ Get(fnCall).fn = "getBalances"
    /\ fnResult' = Some(Returned(getBalances(Get(fnCall).reads)))
    /\ UNCHANGED <<fnCall, outsideCalc>>

ApplyGetHighestStablecoinBalance ==
    /\ IsSome(fnCall) /\ fnResult = None
    /\ Get(fnCall).fn = "getHighestStablecoinBalance"
    /\ LET c == Get(fnCall)
       IN  fnResult' = Some(<<getHighestStablecoinBalance(Stablecoins, getBalances(c.reads),
                                                          c.minThreshold)>>)
    /\ UNCHANGED <<fnCall, outsideCalc>>

\* the engine is idle and one utility function is about to be evaluated
FunctionInit ==
    /\ config = ScriptConfig
    /\ executors = ScriptExecutors
    /\ EngineIdle
    /\ best = None
    /\ SourceIdle
    /\ ExecutorIdle
    /\ allowance = [s \in {} |-> 0]
    /\ fnResult = None
    /\ RetryIdle
    /\ CacheEmpty
    /\ \/ fnCall \in {Some(c) : c \in MinAmountOutCalls}
       \/ fnCall \in {Some(c) : c \in ProfitCalls}
       \/ fnCall \in {Some(c) : c \in NormalizeCalls}
       \/ fnCall \in {Some(c) : c \in ScenarioCalls}
       \/ fnCall \in {Some(c) : c \in HighestBalanceCalls}
       \/ fnCall \in {Some(c) : c \in GetBalancesCalls}

FunctionNext ==
    \/ ApplyCalculateMinAmountOut
    \/ ApplyCalculateProfitBps
    \/ ApplyNormalizeDecimals
    \/ ApplyProfitScenario
    \/ ApplyGetHighestStablecoinBalance
    \/ ApplyGetBalances

FunctionSpec == FunctionInit /\ [][FunctionNext]_vars

(***************************************************************************)
(* utils/retry.ts: one call of retry(fn, options, context)                 *)
(***************************************************************************)
\* the options callers pass: maxRetries from the configuration (any integer, a
\* negative one included), the default delays or those of the 1Inch executor, a
\* multiplier of at least 1, a cap the delays do or do not reach
RetryCalls ==
    [fn : {"retry"}, maxRetries : -1..MaxRetries,
     initialDelay : {DefaultInitialDelay, 2000},
     backoffMultiplier : {1, DefaultBackoffMultiplier, 3},
     maxDelay : {3000, DefaultMaxDelay}]

\* what one invocation of fn does: it resolves with a value or rejects
FnOutcomes == {[ok |-> TRUE, value |-> "response", error |-> ""],
               [ok |-> FALSE, value |-> "", error |-> "timeout"],
               [ok |-> FALSE, value |-> "", error |-> "rate limited"]}

outsideRetry == <<setup, best, sourceVars, executorVars, pc, balances, runVars, searchVars,
                  execVars, logVars, result, returned, fnCall, cacheVars>>

\* the loop body: `return await fn()`, or the catch block, which rethrows after
\* the last attempt and otherwise computes the delay and starts to sleep
RetryAttempt ==
    /\ retryPc = "loop"
    /\ retryAttempt <= Get(fnCall).maxRetries
    /\ LET o == Get(fnCall)
       IN  \E r \in FnOutcomes :
             /\ fnOutcomes' = Append(fnOutcomes, r)
             /\ IF r.ok
                THEN /\ fnResult' = Some(Returned(Some(r.value)))
                     /\ retryPc' = "done"
                     /\ UNCHANGED <<retryLastError, sleeps>>
                ELSE /\ retryLastError' = Some(r.error)
                     /\ IF retryGivesUp(retryAttempt, o.maxRetries, r.error)
                        THEN /\ fnResult' = Some(Threw(r.error))
                             /\ retryPc' = "done"
                             /\ UNCHANGED sleeps
                        ELSE /\ sleeps' = Append(sleeps,
                                                 RetryDelay(retryAttempt, o.initialDelay,
                                                            o.backoffMultiplier, o.maxDelay))
                             /\ retryPc' = "sleep"
                             /\ UNCHANGED fnResult
    /\ UNCHANGED <<retryAttempt, outsideRetry>>

\* `await sleep(delay)` is over: attempt++ and the loop condition is next
RetryWake ==
    /\ retryPc = "sleep"
    /\ retryAttempt' = retryAttempt + 1
    /\ retryPc' = "loop"
    /\ UNCHANGED <<fnResult, retryLastError, fnOutcomes, sleeps, outsideRetry>>

\* the loop condition fails: `throw lastError || new Error(...)` after the loop
RetryLoopExit ==
    /\ retryPc = "loop"
    /\ ~(retryAttempt <= Get(fnCall).maxRetries)
    /\ fnResult' = Some(Threw(IF IsSome(retryLastError) THEN Get(retryLastError)
                              ELSE "Retry failed for unknown reason"))
    /\ retryPc' = "done"
    /\ UNCHANGED <<retryAttempt, retryLastError, fnOutcomes, sleeps, outsideRetry>>

\* retry has been called: attempt = 0, lastError undefined
RetryInit ==
    /\ config = ScriptConfig
    /\ executors = ScriptExecutors
    /\ EngineIdle
    /\ best = None
    /\ SourceIdle
    /\ ExecutorIdle
    /\ allowance = [s \in {} |-> 0]
    /\ fnCall \in {Some(c) : c \in RetryCalls}
    /\ fnResult = None
    /\ retryPc = "loop"
    /\ retryAttempt = 0
    /\ retryLastError = None
    /\ fnOutcomes = << >>
    /\ sleeps = << >>
    /\ CacheEmpty

RetryNext ==
    \/ RetryAttempt
    \/ RetryWake
    \/ RetryLoopExit

RetrySpec == RetryInit /\ [][RetryNext]_vars

\* the same call when fn always settles and the timer of sleep always fires
RetryFairSpec == RetrySpec /\ WF_vars(RetryNext)

(***************************************************************************)
(* Properties                                                              *)
(***************************************************************************)
\* profit of quote q of the current request, as findOpportunity computes it
CurrentProfit(q) == ProfitOf(q, inputAmount, Get(inputToken), Get(tokenOut))

\* the list getQuotes returned holds a quote at or above the threshold
QualifyingReturned ==
    \E i \in 1..Len(quotes) : CurrentProfit(quotes[i]) >= config.minProfitBps

\* C1: once a returned quote has profitBps >= minProfitBps the search halts:
\* no further getQuotes call (hence no getQuote call) is issued in that run.
C1_StopOnFirstMatchOverTargets ==
    [][QualifyingReturned =>
          /\ getQuotesLog' = getQuotesLog
          /\ getQuoteLog' = getQuoteLog]_vars

\* C1 witness: the run ended on a match while a later target was never queried
C1_Witness ==
    /\ pc = "done"
    /\ QualifyingReturned
    /\ Len(getQuotesLog) < Len(targetTokens)

\* the first provider's quote for the first target pair has settled and clears
\* the threshold
FirstProviderFirstPairClears ==
    /\ pc \in {"quoting", "evaluate"}
    /\ Len(getQuotesLog) = 1
    /\ 1 \notin pending
    /\ settled[1].ok
    /\ CurrentProfit(settled[1]) >= config.minProfitBps

\* C2: when the first provider's quote for the first target pair clears the
\* threshold, no quote request went to any other provider or any other pair.
C2_NoRequestBeyondFirstProvider ==
    FirstProviderFirstPairClears =>
        \A k \in 1..Len(getQuoteLog) :
            getQuoteLog[k] = <<providers[1], targetTokens[1].symbol>>

\* C3: an opportunity is constructed exactly when a quote of the list has
\* profitBps >= minProfitBps (equality accepted, one below rejected), it is
\* built from such a quote, and every opportunity carries profitBps >= minProfitBps.
C3_ThresholdGate ==
    [][pc = "evaluate" =>
          LET accepted == {i \in 1..Len(quotes) :
                               CurrentProfit(quotes[i]) >= config.minProfitBps}
          IN  /\ accepted = {} => opportunity' = None
              /\ accepted # {} =>
                    /\ IsSome(opportunity')
                    /\ Get(opportunity').quote \in {quotes[i] : i \in accepted}
                    /\ Get(opportunity').profitBps = CurrentProfit(Get(opportunity').quote)
                    /\ Get(opportunity').profitBps >= config.minProfitBps]_vars

\* C3 witness: a quote exactly at the threshold became the opportunity
C3_Witness ==
    /\ pc = "found"
    /\ IsSome(opportunity)
    /\ Get(opportunity).profitBps = config.minProfitBps

\* C4: in dry-run mode no executor's execute or approveToken is invoked, and
\* a run that found an opportunity returns success=true, attempted=false with it.
C4_DryRunNonExecution ==
    config.dryRun =>
        /\ executeLog = << >>
        /\ approveLog = << >>
        /\ (pc = "done" /\ IsSome(opportunity)) =>
              /\ Get(result).success = TRUE
              /\ Get(result).attempted = FALSE
              /\ Get(result).opportunity = opportunity

\* C4 witness: a dry run ended with an opportunity
C4_Witness == config.dryRun /\ pc = "done" /\ IsSome(opportunity)

\* no balance is positive and at or above the configured threshold
NoQualifyingBalance ==
    \A i \in 1..Len(balances) :
        \/ balances[i] = 0
        \/ (config.minBalanceThreshold # 0 /\ balances[i] < config.minBalanceThreshold)

NoBalanceExit ==
    [attempted |-> FALSE, success |-> FALSE, opportunity |-> None,
     transactionHash |-> None, error |-> None,
     reason |-> Some(<<"No stablecoin balance found above threshold">>)]

\* C5: when no balance qualifies, run() returns attempted=false, success=false
\* with the no-balance reason, and that run calls neither the aggregator nor
\* an executor.
C5_NoBalanceExit ==
    [][/\ (pc = "selectBalance" /\ NoQualifyingBalance) =>
              (pc' = "done" /\ result' = Some(NoBalanceExit))
       /\ result' = Some(NoBalanceExit) =>
              /\ getQuotesLog' = << >>
              /\ getQuoteLog' = << >>
              /\ executeLog' = << >>
              /\ approveLog' = << >>]_vars

\* C5 witness: a run ended with the no-balance result
C5_Witness == pc = "done" /\ result = Some(NoBalanceExit)

\* C6: when execute returns success=false with an error, run() returns
\* attempted=true, success=false and the executor's error message unchanged.
C6_ExecutorFailurePropagation ==
    (pc = "done" /\ IsSome(swapResult) /\ ~Get(swapResult).success
        /\ IsSome(Get(swapResult).error)) =>
        /\ Get(result).attempted = TRUE
        /\ Get(result).success = FALSE
        /\ Get(result).error = Some(Get(Get(swapResult).error).message)

\* C6 witness: a run ended after the executor reported an approval failure
C6_Witness ==
    /\ pc = "done"
    /\ swapResult = Some(SwapFailed(ErrApproval))

\* C7 as stated: an exception raised during the run yields attempted=false,
\* success=false and the exception's message, and run() never rejects.
C7_ExceptionYieldsNotAttempted ==
    /\ pc # "rejected"
    /\ (pc = "done" /\ IsSome(thrown)) =>
          /\ Get(result).attempted = FALSE
          /\ Get(result).success = FALSE
          /\ Get(result).error = thrown

\* C7 amended: run() never rejects, and an exception thrown by execute is
\* turned by executeOpportunity into attempted=true, success=false with the
\* exception's message.
C7_ExceptionContainment ==
    /\ pc # "rejected"
    /\ (pc = "done" /\ IsSome(thrown)) =>
          /\ Get(result).attempted = TRUE
          /\ Get(result).success = FALSE
          /\ Get(result).error = thrown

\* C7 witness: a run ended after execute threw
C7_Witness == pc = "done" /\ IsSome(thrown)

RegIndex(name) == CHOOSE p \in 1..Len(providers) : providers[p] = name

\* C9: whatever subset of sources throws, getQuotes returns exactly one quote
\* per source that succeeded, carrying that source's amount, and nothing else;
\* with every source failing it returns the empty list.
C9_SourceFailureIsolation ==
    pc = "evaluate" =>
        /\ Len(quotes) = Cardinality({p \in 1..Len(providers) : settled[p].ok})
        /\ \A p \in 1..Len(providers) :
              settled[p].ok =>
                  \E i \in 1..Len(quotes) :
                      /\ quotes[i].provider = providers[p]
                      /\ quotes[i].amountOut = settled[p].amountOut
        /\ \A i \in 1..Len(quotes) :
              \E p \in 1..Len(providers) :
                  /\ settled[p].ok
                  /\ quotes[i].provider = providers[p]
                  /\ quotes[i].amountOut = settled[p].amountOut

\* C9 witness: one source threw and the quotes of the two others were returned
C9_Witness ==
    /\ pc = "evaluate"
    /\ Cardinality({p \in 1..Len(providers) : ~settled[p].ok}) = 1
    /\ Len(quotes) = 2

\* C10: the returned list is sorted by amountOut descending, and quotes with
\* equal amountOut are in registration order, whatever the completion order.
C10_AggregatorOrdering ==
    pc = "evaluate" =>
        \A i \in 1..Len(quotes) : \A j \in 1..Len(quotes) :
            i < j =>
                /\ quotes[i].amountOut >= quotes[j].amountOut
                /\ quotes[i].amountOut = quotes[j].amountOut =>
                      RegIndex(quotes[i].provider) < RegIndex(quotes[j].provider)

\* position of provider index p in the completion order
CompletedAt(p) == CHOOSE k \in 1..Len(completionOrder) : completionOrder[k] = p

\* C10 witness: two sources tied, and the one registered later completed first
C10_Witness ==
    /\ pc = "evaluate"
    /\ \E i \in 1..Len(quotes) : \E j \in 1..Len(quotes) :
          /\ i < j
          /\ quotes[i].amountOut = quotes[j].amountOut
          /\ CompletedAt(RegIndex(quotes[j].provider))
                < CompletedAt(RegIndex(quotes[i].provider))

\* the sources whose getQuote succeeded in the fan-out just completed
Succeeded == {p \in 1..Len(providers) : settled[p].ok}

\* C11: getBestQuote fails with the all-providers-failed error exactly when
\* no source returned a quote; otherwise it returns a successful source's
\* quote whose amountOut is the maximum over all successful sources.
C11_BestQuoteOrAggregateError ==
    (pc = "done" /\ IsSome(best)) =>
        /\ (~Get(best).ok) <=> (Succeeded = {})
        /\ (~Get(best).ok) => Get(best).error = Some(ErrAllProvidersFailed)
        /\ Get(best).ok =>
              /\ \E p \in Succeeded :
                    /\ Get(Get(best).quote).provider = providers[p]
                    /\ Get(Get(best).quote).amountOut = settled[p].amountOut
              /\ \A p \in Succeeded :
                    Get(Get(best).quote).amountOut >= settled[p].amountOut

\* C11 witness: one source failed, two succeeded with different amounts, and
\* getBestQuote returned
C11_Witness ==
    /\ pc = "done"
    /\ IsSome(best)
    /\ Get(best).ok
    /\ Cardinality(Succeeded) = 2
    /\ \E p \in Succeeded : \E q \in Succeeded : settled[p].amountOut < settled[q].amountOut

\* C11 witness of the failure side: every source failed and getBestQuote threw
C11_AllFailedReached ==
    /\ pc = "done"
    /\ IsSome(best)
    /\ Succeeded = {}

\* the classes of failure that are not transient: a validation failure, an
\* invalid pair, no liquidity
PermanentTypes == {"INVALID_TOKEN", "INSUFFICIENT_LIQUIDITY"}

\* C12: a validation failure or an invalid-pair / no-liquidity answer of the
\* backend (HTTP 400/404, on-chain revert) is never retried: after such an
\* answer retry does not sleep for another attempt, so the fee tier it was
\* given for has had exactly one backend request.
C12_NoRetryOfPermanentFailure ==
    (gqPc = "backoff" /\ IsSome(lastError)) =>
        getQuoteCatch(Get(source), Get(lastError)).type \notin PermanentTypes

\* the request has one of the defects validation is there to stop
Defective(p) ==
    \/ p.tokenIn.chainId # p.chainId
    \/ p.tokenOut.chainId # p.chainId
    \/ p.tokenIn.decimals <= 0
    \/ p.tokenOut.decimals <= 0
    \/ ~addressRegexTest(p.tokenIn.address)
    \/ ~addressRegexTest(p.tokenOut.address)
    \/ p.amountIn <= 0

\* C13: a request in which a token's chainId differs from the request's, a
\* token's decimals are not positive, a token address is malformed or
\* amountIn <= 0 is rejected by every source before any backend request.
C13_DefectiveRequestRejected ==
    (gqPc \notin {"idle", "validate"} /\ Defective(Get(params))) =>
        /\ gqPc = "rejected"
        /\ \A t \in DOMAIN requestCount : requestCount[t] = 0

\* C14: whenever getQuote of a source rejects, whatever the cause, the error
\* is a QuoteError of one of the classified types whose provider field is
\* that source's name.
C14_ErrorTagging ==
    gqPc = "rejected" =>
        /\ ~Get(quoteOutcome).ok
        /\ Get(Get(quoteOutcome).error).class = "QuoteError"
        /\ Get(Get(quoteOutcome).error).type \in QuoteErrorType
        /\ Get(Get(quoteOutcome).error).provider = Get(source)

\* C14 witness: a backend error that is neither a QuoteError nor an HTTP
\* error exhausted the retries and getQuote rejected
C14_Witness ==
    /\ gqPc = "rejected"
    /\ IsSome(lastError)
    /\ Get(lastError).class = "Error"
    /\ attempt = MaxRetries

\* C14 witness of the other causes: a validation failure, and a malformed body
C14_ValidationRejectedReached ==
    /\ gqPc = "rejected"
    /\ Get(Get(quoteOutcome).error).type = "INVALID_TOKEN"
    /\ \A t \in DOMAIN requestCount : requestCount[t] = 0


\* the SwapResult a finished execute call handed to its caller, if it returned one
ExecuteEnded == exOp = "execute" /\ exPc = "idle" /\ calls > 0

RightAfter(i, j) ==
    /\ j = i + 1
    /\ approveCalls[i].ended = "returned"
    /\ approveCalls[j].spender = approveCalls[i].spender
    /\ approveCalls[j].amount = approveCalls[i].amount
    /\ approveCalls[j].swapsBefore = approveCalls[i].swapsBefore

\* C16: an approveToken call that reads an allowance covering the amount sends no
\* approval and returns; one that returns after reading a smaller allowance has sent
\* exactly one approval and seen it confirmed; a call right after a returned call
\* with the same amount sends nothing.
C16_ApproveIdempotent ==
    /\ Len(approvals) = Cardinality({i \in DOMAIN approveCalls : approveCalls[i].submitted = 1})
    /\ \A i \in DOMAIN approveCalls :
         LET c == approveCalls[i]
         IN  /\ c.seen >= c.amount => c.submitted = 0 /\ c.ended = "returned"
             /\ (c.ended = "returned" /\ c.seen < c.amount) =>
                    c.submitted = 1 /\ c.confirmed
             /\ \A j \in DOMAIN approveCalls :
                    (RightAfter(i, j) /\ approveCalls[j].seen # -1) =>
                        approveCalls[j].submitted = 0

\* two approveToken calls in a row with one amount: the first approves and is
\* confirmed, the second sends nothing
C16_Witness ==
    /\ exOp = "approveToken"
    /\ exPc = "idle"
    /\ Len(approveCalls) = 2
    /\ RightAfter(1, 2)
    /\ approveCalls[1].submitted = 1
    /\ approveCalls[1].confirmed
    /\ approveCalls[2].call = approveCalls[1].call + 1
    /\ approveCalls[2].submitted = 0
    /\ approveCalls[2].ended = "returned"


\* the swap transactions the on-chain executors have sent
OnChainSwaps == {i \in DOMAIN submitted : submitted[i].executor \in OnChainExecutors}

\* C17: every swap transaction sent by Uniswap V3, Uniswap V4 or 1Inch carries the
\* deadline of the request it was sent for.
C17_DeadlineEmbedded ==
    \A i \in OnChainSwaps : submitted[i].deadline = Some(submitted[i].request.deadline)

\* C18: every swap transaction sent by Uniswap V3, Uniswap V4 or 1Inch has the
\* request's minAmountOut as the minimum output below which the chain reverts it.
C18_SlippageFloorEmbedded ==
    \A i \in OnChainSwaps :
        submitted[i].amountOutMinimum = Some(submitted[i].request.minAmountOut)


\* the current execute call has posted a CowSwap order
OrderPosted ==
    \E i \in DOMAIN submitted : submitted[i].kind = "order" /\ submitted[i].call = calls

\* monitorOrder is running
Monitoring == exPc \in {"monitor", "sleep"}

\* what monitorOrder has seen and answered at each moment: while it runs every answer
\* so far was 'open'; once execute has returned, the result is a success exactly when
\* a poll saw 'fulfilled', and a failure when one saw 'cancelled' or 'expired'
MonitorVerdict ==
    /\ Monitoring => OrderPosted /\ observed \subseteq {"open"}
    /\ (OrderPosted /\ exPc = "idle") =>
          /\ IsSome(exOutcome) /\ ~Get(exOutcome).threw
          /\ Get(Get(exOutcome).value).success <=> "fulfilled" \in observed
          /\ observed \cap {"cancelled", "expired"} # {} =>
                ~Get(Get(exOutcome).value).success

\* the steps of monitorOrder: a sleep lasts the poll interval and leads to the next
\* loop test; polling stops with the timeout failure once the timeout has elapsed
MonitorStep ==
    /\ (exPc = "sleep" /\ exPc' # "sleep") =>
          exPc' = "monitor" /\ elapsed' = elapsed + PollInterval
    /\ (exPc = "monitor" /\ exPc' # "monitor" /\ ~(elapsed < OrderTimeout)) =>
          /\ observed' = observed
          /\ exOutcome' = Some(Returned(Some(SwapFailed("CowSwap order timeout"))))

\* C19: after a CowSwap order is posted, execute polls at the fixed interval while the
\* status is 'open' and the timeout has not elapsed, returns success exactly when a
\* poll sees 'fulfilled', returns a failure on 'cancelled', 'expired' or the timeout,
\* and always returns.
C19_MonitoringTerminates ==
    /\ []MonitorVerdict
    /\ [][MonitorStep]_vars
    /\ Monitoring ~> (exPc = "idle")

\* an order that stayed open until the timeout elapsed, ended as a failure
C19_Witness ==
    /\ OrderPosted
    /\ exPc = "idle"
    /\ observed = {"open"}
    /\ elapsed >= OrderTimeout
    /\ ~Get(Get(exOutcome).value).success

\* an order filled after at least one poll found it open
C19_FilledReached ==
    /\ OrderPosted
    /\ exPc = "idle"
    /\ observed = {"open", "fulfilled"}
    /\ Get(exOutcome) = Returned(Some(SwapSuccess(Some(OrderId))))


\* an estimateGas call has ended
EstimateEnded == exOp = "estimateGas" /\ exPc = "idle" /\ calls > 0

C20_OneInchFallbackReached ==
    /\ EstimateEnded
    /\ exName = Some("1Inch")
    /\ gasAnswer = Some(EstimationFailed)
    /\ exOutcome = Some(Returned(Some(300000)))


\* the call under evaluation and what it returned
Called(fn) == IsSome(fnCall) /\ IsSome(fnResult) /\ Get(fnCall).fn = fn

\* C21: for X >= 0 and slippageBps in 0..10000, calculateMinAmountOut(X, slippageBps)
\* is floor(X * (10000 - slippageBps) / 10000): X at 0 bps, 0 at 10000 bps, never
\* larger for a larger tolerance, and always within 0..X.
C21_SlippageBound ==
    Called("calculateMinAmountOut") =>
        LET c == Get(fnCall)
            r == Get(fnResult)[1]
            r2 == Get(fnResult)[2]
        IN  /\ r * 10000 <= c.x * (10000 - c.bps)
            /\ c.x * (10000 - c.bps) < (r + 1) * 10000
            /\ c.bps = 0 => r = c.x
            /\ c.bps = 10000 => r = 0
            /\ c.bps <= c.bps2 => r2 <= r
            /\ 0 <= r /\ r <= c.x

\* 10001 at 50 bps gives 9950 (9950.995 rounded down), and 1 at 9999 bps
C21_Witness ==
    /\ Called("calculateMinAmountOut")
    /\ Get(fnCall).x = 10001
    /\ Get(fnCall).bps = 50
    /\ Get(fnCall).bps2 = 9999
    /\ Get(fnResult) = <<9950, 1>>


\* C22 as stated: for amountIn > 0 and fixed tokens, a larger amountOut always gives a
\* larger profitBps.
C22_ProfitStrictlyIncreasing ==
    Called("calculateProfitBps") =>
        LET c == Get(fnCall)
        IN  (c.amountIn > 0 /\ c.out < c.out2) => Get(fnResult)[1] < Get(fnResult)[2]

\* C22: for amountIn > 0 and fixed tokens, a larger amountOut never gives a smaller
\* profitBps.
C22_ProfitNonDecreasing ==
    Called("calculateProfitBps") =>
        LET c == Get(fnCall)
        IN  (c.amountIn > 0 /\ c.out <= c.out2) => Get(fnResult)[1] <= Get(fnResult)[2]

\* 10000 in, 10000 and 10030 out between tokens of equal decimals: 0 and 30 bps
C22_Witness ==
    /\ Called("calculateProfitBps")
    /\ Get(fnCall).amountIn = 10000
    /\ Get(fnCall).tokenIn = USDT /\ Get(fnCall).tokenOut = USDT
    /\ Get(fnCall).out = 10000 /\ Get(fnCall).out2 = 10030
    /\ Get(fnResult) = <<0, 30>>

\* two different output amounts with one profitBps: 10000 and 10001 of a 3-decimal
\* token for 10000 of a 2-decimal token
C22_EqualProfitReached ==
    /\ Called("calculateProfitBps")
    /\ Get(fnCall).amountIn = 10000
    /\ Get(fnCall).tokenIn = USDT /\ Get(fnCall).tokenOut = DAI
    /\ Get(fnCall).out = 10000 /\ Get(fnCall).out2 = 10001
    /\ Get(fnResult)[1] = Get(fnResult)[2]


\* the size of a number
Abs(n) == IF n < 0 THEN -n ELSE n

\* C23: normalizeDecimals from d1 up to d2 multiplies by 10^(d2-d1) exactly, and back
\* from d2 to d1 returns the amount it started from; from d1 down to d2 it divides by
\* 10^(d1-d2) and drops the fraction (toward zero); between equal decimals it returns
\* the amount.
C23_NormalizeRoundTrip ==
    Called("normalizeDecimals") =>
        LET c == Get(fnCall)
            there == Get(fnResult)[1]
            back == Get(fnResult)[2]
        IN  /\ c.d1 <= c.d2 =>
                  /\ there = c.a * Pow10(c.d2 - c.d1)
                  /\ (c.a >= 0 => back = c.a)
            /\ c.d1 > c.d2 =>
                  /\ Abs(there) * Pow10(c.d1 - c.d2) <= Abs(c.a)
                  /\ Abs(c.a) < (Abs(there) + 1) * Pow10(c.d1 - c.d2)
                  /\ (c.a >= 0 => there >= 0) /\ (c.a <= 0 => there <= 0)
            /\ c.d1 = c.d2 => there = c.a /\ back = c.a

\* 9999 from 0 decimals to 3 and back
C23_Witness ==
    /\ Called("normalizeDecimals")
    /\ Get(fnCall).a = 9999 /\ Get(fnCall).d1 = 0 /\ Get(fnCall).d2 = 3
    /\ Get(fnResult) = <<9999000, 9999>>

\* 9999 from 3 decimals down to 0 loses its fraction
C23_TruncationReached ==
    /\ Called("normalizeDecimals")
    /\ Get(fnCall).a = 9999 /\ Get(fnCall).d1 = 3 /\ Get(fnCall).d2 = 0
    /\ Get(fnResult) = <<9, 9000>>


\* the scenario: 1000 units of a 6-decimal token in, 1004 units of an 18-decimal token
\* quoted, minProfitBps = 30
Scenario1 ==
    /\ Called("findOpportunity")
    /\ Get(fnCall).unitsIn = 1000 /\ Get(fnCall).decimalsIn = 6
    /\ Get(fnCall).unitsOut = 1004 /\ Get(fnCall).decimalsOut = 18
    /\ Get(fnCall).minProfitBps = 30

\* C24 as stated: in the scenario the computed profitBps is 400 and the opportunity
\* is accepted.
C24_ScenarioProfit400 ==
    Scenario1 => Get(fnResult) = [profitBps |-> 400, accepted |-> TRUE]

\* C24: in the scenario the computed profitBps is 40 (0.4 percent) and the opportunity
\* is accepted.
C24_ScenarioProfit40 ==
    Scenario1 => Get(fnResult) = [profitBps |-> 40, accepted |-> TRUE]

\* the scenario has been computed
C24_Witness == Scenario1 /\ Get(fnResult).profitBps = 40 /\ Get(fnResult).accepted


\* C25: whenever an executor submits a swap transaction or an order, the request's
\* deadline is later than the time of that submission.
C25_DeadlineInFuture ==
    \A i \in DOMAIN submitted : submitted[i].request.deadline > submitted[i].at

\* a swap submitted within its deadline after an approval was awaited
C25_AfterApprovalReached ==
    \E i \in DOMAIN submitted, j \in DOMAIN approveCalls :
        /\ approveCalls[j].call = submitted[i].call
        /\ approveCalls[j].confirmed
        /\ submitted[i].request.deadline > submitted[i].at


\* the positions of the tokens whose balance qualifies: at least the threshold,
\* or positive when there is no threshold
Qualifying(reads, minThreshold) ==
    {i \in DOMAIN reads :
        LET balance == IF reads[i].ok THEN reads[i].value ELSE 0
        IN  IF minThreshold # 0 THEN balance >= minThreshold ELSE balance > 0}

C26_NullReached ==
    /\ Called("getHighestStablecoinBalance")
    /\ Get(fnResult)[1] = None
    /\ \E i \in DOMAIN Get(fnCall).reads : Get(fnCall).reads[i].value = MinThreshold - 1


NoExecutorReturned ==
    /\ IsSome(result)
    /\ IsSome(Get(result).reason)
    /\ Len(Get(Get(result).reason)) = 2

\* C28: an executor registered under a name that differs from the opportunity's
\* provider name only in case, whitespace or punctuation is selected: the engine
\* reports a missing executor only when no registered name normalizes to the
\* provider's normalized name.
C28_NormalizedDispatch ==
    NoExecutorReturned =>
        \A name \in executors :
            normalizeProviderName(name) # normalizeProviderName(Get(Get(result).reason)[2])

\* an executor registered under the provider's exact name has been called
C28_ExactNameDispatched ==
    /\ executors = RespelledExecutors
    /\ executeLog # << >>


\* the estimated gas cost of a swap, in basis points of the input amount: the 0.1
\* percent of the trading-executor scenario
GasCostBps == 10

\* C29: with checkGasCost enabled, an opportunity whose profit net of the estimated
\* gas cost falls below minProfitBps is rejected: every opportunity handed to an
\* executor keeps at least minProfitBps after the gas cost.
C29_GasAwareRejection ==
    (config.checkGasCost /\ executeLog # << >>) =>
        Get(opportunity).profitBps - GasCostBps >= config.minProfitBps

\* an opportunity of a gross profit of exactly minProfitBps has been executed
C29_GrossOnlyExecuted ==
    /\ config.checkGasCost
    /\ executeLog # << >>
    /\ Get(opportunity).profitBps = config.minProfitBps


\* C30: every result run() returns with success = false carries a non-empty reason
\* or a non-empty error text.
C30_NoSilentFailure ==
    (IsSome(result) /\ ~Get(result).success) =>
        \/ /\ IsSome(Get(result).reason)
           /\ Get(Get(result).reason) # << >>
           /\ Get(Get(result).reason)[1] # ""
        \/ /\ IsSome(Get(result).error)
           /\ Get(Get(result).error) # ""

\* an attempted swap failed and the result carries the executor's error text
C30_Witness ==
    /\ IsSome(result)
    /\ Get(result).attempted /\ ~Get(result).success
    /\ Get(result).reason = None
    /\ Get(result).error = Some(ErrSwap)

\* each of the other failures has been returned with its reason or error
C30_NoBalanceReached == result = Some(NoBalanceResult)
C30_NoOpportunityReached == result = Some(NoOpportunityResult)
C30_ExceptionReached ==
    IsSome(result) /\ Get(result).attempted /\ Get(result).error = Some(ErrThrown)


\* the symbols of the configured stablecoins other than the input token, in list order
OtherStablecoins ==
    LET T == FilterTargets(Stablecoins, Get(inputToken))
    IN  [i \in 1..Len(T) |-> T[i].symbol]

\* findOpportunity has returned null
NullReturned == pc = "done" /\ result = Some(NoOpportunityResult)

\* the quotes of one target have been examined and none opened an opportunity: all
\* of them were below the threshold and the loop goes on with the next target
TargetRejected ==
    (pc = "evaluate" /\ opportunity' = None) =>
        /\ \A k \in 1..Len(quotes) : CurrentProfit(quotes[k]) < config.minProfitBps
        /\ pc' = "search"
        /\ idx' = idx + 1

\* C31: findOpportunity returns null only after getQuotes has been called for every
\* target token other than the input token, in configured list order, and every quote
\* returned for each of them was below minProfitBps; a target whose fetch yields
\* nothing does not stop the search of the remaining targets.
C31_ExhaustiveSearch ==
    /\ [](NullReturned => getQuotesLog = OtherStablecoins)
    /\ [][TargetRejected]_vars

\* null is returned after two targets were queried
C31_Witness ==
    /\ NullReturned
    /\ Len(getQuotesLog) >= 2
    /\ getQuotesLog = OtherStablecoins

\* the first target gave no opportunity and the second target is being queried
C31_SearchGoesOnReached ==
    /\ pc = "quoting"
    /\ Len(getQuotesLog) = 2
    /\ opportunity = None


\* C32: in every executor's execute the swap transaction or order is submitted only
\* after approveToken for the input token and amountIn has returned; when approveToken
\* fails nothing is submitted in that call and execute returns success = false.
C32_ApproveBeforeSwap ==
    /\ \A i \in DOMAIN submitted :
          \E j \in DOMAIN approveCalls :
              /\ approveCalls[j].call = submitted[i].call
              /\ approveCalls[j].ended = "returned"
              /\ approveCalls[j].amount = submitted[i].amountIn
              /\ approveCalls[j].spender = Spender(submitted[i].executor)
              /\ approveCalls[j].swapsBefore < i
    /\ \A j \in DOMAIN approveCalls :
          approveCalls[j].ended = "threw" =>
              /\ \A i \in DOMAIN submitted : submitted[i].call # approveCalls[j].call
              /\ (approveCalls[j].call = calls /\ exOp = "execute") =>
                    /\ exPc = "idle"
                    /\ IsSome(exOutcome) /\ ~Get(exOutcome).threw
                    /\ ~Get(Get(exOutcome).value).success

\* a CowSwap order posted after the approval it needed was confirmed
C32_Witness ==
    \E i \in DOMAIN submitted, j \in DOMAIN approveCalls :
        /\ submitted[i].kind = "order"
        /\ approveCalls[j].call = submitted[i].call
        /\ approveCalls[j].submitted = 1 /\ approveCalls[j].confirmed

\* an execute whose approval reverted has returned a failed result, nothing sent
C32_ApprovalFailedReached ==
    /\ ExecuteEnded
    /\ submitted = << >>
    /\ exOutcome = Some(Returned(Some(SwapFailed("approval reverted"))))


\* the options of the retry call under way
RetryOptions == Get(fnCall)

\* what the call has done so far agrees with the contract of retry
RetryContract ==
    LET o == RetryOptions
        n == Len(fnOutcomes)
    IN  /\ n <= o.maxRetries + 1 \/ n = 0
        /\ \A k \in 1..n : fnOutcomes[k].ok => k = n
        /\ \A k \in 1..Len(sleeps) :
              /\ sleeps[k] = Min(o.initialDelay * Pow(o.backoffMultiplier, k - 1), o.maxDelay)
              /\ sleeps[k] <= o.maxDelay
              /\ k > 1 => sleeps[k - 1] <= sleeps[k]
        /\ Len(sleeps) <= n
        /\ retryPc = "done" =>
              /\ IsSome(fnResult)
              /\ IF n > 0 /\ fnOutcomes[n].ok
                 THEN fnResult = Some(Returned(Some(fnOutcomes[n].value)))
                 ELSE /\ n = (IF o.maxRetries >= 0 THEN o.maxRetries + 1 ELSE 0)
                      /\ Len(sleeps) = (IF n > 0 THEN n - 1 ELSE 0)
                      /\ n > 0 => fnResult = Some(Threw(fnOutcomes[n].error))
                      /\ n = 0 => Get(fnResult).threw

\* C33: retry invokes fn at most maxRetries + 1 times, returns the value of the first
\* successful invocation without invoking fn again, and after maxRetries + 1 failures
\* rethrows the last error; the wait before invocation k + 1 is
\* min(initialDelay * backoffMultiplier^k, maxDelay), the waits are non-decreasing
\* and never exceed maxDelay, and the call always terminates.
C33_BoundedRetry ==
    /\ []RetryContract
    /\ (retryPc = "loop") ~> (retryPc = "done")

\* all maxRetries + 1 = 4 invocations failed, the third wait was cut to maxDelay,
\* and the last error was rethrown
C33_Witness ==
    /\ retryPc = "done"
    /\ Len(fnOutcomes) = MaxRetries + 1
    /\ Len(sleeps) = MaxRetries
    /\ sleeps[MaxRetries] = 3000
    /\ sleeps[1] < 3000
    /\ fnResult = Some(Threw(fnOutcomes[MaxRetries + 1].error))

\* the second invocation succeeded and its value was returned
C33_SuccessReached ==
    /\ retryPc = "done"
    /\ Len(fnOutcomes) = 2
    /\ fnResult = Some(Returned(Some("response")))


\* the getQuote calls of the getQuotes call under way: one on each of the first n
\* registered providers, for the pair of the request
GetQuoteCallsOn(n) ==
    [p \in 1..n |-> <<providers[p], Get(tokenOut).symbol>>]

\* a getQuotes call is under way or has returned
GetQuotesEntered == pc \in {"quoting", "evaluate", "done"}

\* getQuotes is called: getQuote is invoked once on every provider registered now and
\* all these calls are outstanding together
FanOutStep ==
    (pc = "search" /\ pc' = "quoting") =>
        /\ getQuoteLog' = getQuoteLog \o [p \in 1..Len(providers) |->
                                            <<providers[p], Get(tokenOut').symbol>>]
        /\ pending' = 1..Len(providers)
        /\ Len(settled') = Len(providers)

\* getQuotes returns only when no call is outstanding
ReturnStep == (pc = "quoting" /\ pc' # "quoting") => pending = {}

\* the provider list changes only by an append, and not by a step of getQuotes
ProvidersStep ==
    providers' # providers =>
        /\ \E name \in AddedProviders : providers' = Append(providers, name)
        /\ UNCHANGED <<pc, pending, settled, completionOrder, quotes, getQuoteLog, best>>

\* C34: getQuotes calls getQuote exactly once on each source registered at the time of
\* the call, all calls outstanding together, and returns only after every one of them
\* has settled; it leaves the registered source list unchanged, and addProvider only
\* appends to that list.
C34_AggregatorSettlesAll ==
    /\ [](GetQuotesEntered =>
            /\ getQuoteLog = GetQuoteCallsOn(Len(settled))
            /\ pending \cup {completionOrder[k] : k \in DOMAIN completionOrder}
                  = 1..Len(settled)
            /\ Len(completionOrder) + Cardinality(pending) = Len(settled)
            /\ pc # "quoting" => pending = {})
    /\ [][FanOutStep /\ ReturnStep /\ ProvidersStep]_vars

\* a provider was added while three getQuote calls were outstanding; getQuotes has
\* returned after exactly these three settled
C34_Witness ==
    /\ pc = "evaluate"
    /\ Len(settled) = NumProviders
    /\ Len(providers) = NumProviders + 1
    /\ Len(getQuoteLog) = NumProviders
    /\ Len(completionOrder) = NumProviders

\* a provider added before the call is called as well
C34_AddedProviderCalledReached ==
    /\ pc = "evaluate"
    /\ Len(getQuoteLog) = NumProviders + 1
    /\ getQuoteLog[NumProviders + 1][1] = providers[NumProviders + 1]
    /\ providers # RegisteredProviders


\* the getQuote calls in flight all carry the target of the getQuotes call under way
InFlightOnOneTarget ==
    pending # {} =>
        /\ pc = "quoting"
        /\ IsSome(tokenOut)
        /\ Get(tokenOut).symbol = getQuotesLog[Len(getQuotesLog)]
        /\ \A p \in pending :
              getQuoteLog[Len(getQuoteLog) - Len(settled) + p]
                  = <<providers[p], Get(tokenOut).symbol>>

\* the request's tokenOut is changed only while no source call is in flight
TokenOutStep == tokenOut' # tokenOut => pending = {} /\ pc # "quoting"

\* C35: at every moment of a run all in-flight source getQuote calls concern one and
\* the same target token; the engine changes the shared request's tokenOut and starts
\* the next pair only after every source call for the current pair has settled.
C35_NoConcurrencyAcrossPairs ==
    /\ []InFlightOnOneTarget
    /\ [][TokenOutStep]_vars

\* the second pair is being queried: its calls are in flight, those of the first
\* pair all settled before tokenOut was changed
C35_Witness ==
    /\ pc = "quoting"
    /\ Len(getQuotesLog) = 2
    /\ Cardinality(pending) = Len(providers) - 1
    /\ Get(tokenOut).symbol = getQuotesLog[2]
    /\ getQuotesLog[1] # getQuotesLog[2]


\* C36: OneInchExecutor sends the transaction the 1Inch API returned only if its 'to'
\* address is the 1Inch router, the spender that was approved.
C36_OneInchTransactionValidated ==
    \A i \in DOMAIN submitted :
        submitted[i].executor = "1Inch" => submitted[i].to = Spender("1Inch")

\* a response from a wrong sender is rejected: nothing sent, a failed result
C36_FromMismatchRejectedReached ==
    /\ ExecuteEnded
    /\ exName = Some("1Inch")
    /\ IsSome(swapData) /\ Get(swapData).from # Get(exParams).signer
    /\ \A i \in DOMAIN submitted : submitted[i].call # calls
    /\ exOutcome = Some(Returned(Some(SwapFailed("Transaction 'from' address mismatch"))))


\* the quoted output of the call under way, in the input token's decimals, is at
\* least the input amount
OutputCoversInput ==
    LET c == Get(fnCall)
        amountIn == Scaled(c.unitsIn, c.decimalsIn)
        normalizedAmountOut ==
            normalizeDecimalsScaled(Scaled(c.unitsOut, c.decimalsOut),
                                    c.decimalsOut, c.decimalsIn)
        e == LeastExponent(normalizedAmountOut, amountIn)
    IN  AtExponent(normalizedAmountOut, e) >= AtExponent(amountIn, e)

\* C37: for every minProfitBps >= 0, a quote is turned into an opportunity only if
\* its output, normalized to the input token's decimals, is at least the input amount.
C37_NoLosingTradeAccepted ==
    (Called("findOpportunity") /\ Get(fnCall).minProfitBps >= 0 /\ Get(fnResult).accepted)
        => OutputCoversInput

\* with minProfitBps = 1 the quote of 19999 for 20000 is rejected
C37_LossRejectedReached ==
    /\ Called("findOpportunity")
    /\ Get(fnCall).unitsIn = 20000 /\ Get(fnCall).unitsOut = 19999
    /\ Get(fnCall).minProfitBps = 1
    /\ ~Get(fnResult).accepted


(***************************************************************************)
(* A Uniswap V3 quote and the execution of the opportunity built on it     *)
(***************************************************************************)
\* executeOpportunity on an opportunity whose quote the Uniswap V3 source has
\* just resolved: the SwapParams are built from the opportunity and handed to
\* the Uniswap V3 executor
ExecuteQuote ==
    /\ gqPc = "resolved"
    /\ Get(source) = "Uniswap V3"
    /\ exPc = "idle"
    /\ exName = None
    /\ now' = 0
    /\ exName' = Some("Uniswap V3")
    /\ exConfig' \in {Some(c) : c \in ExecutorConfigChoices("Uniswap V3")}
    /\ exOp' = "execute"
    /\ exParams' = Some([tokenIn |-> Get(params).tokenIn.symbol,
                         tokenOut |-> Get(params).tokenOut.symbol,
                         amountIn |-> Get(params).amountIn,
                         minAmountOut |->
                             calculateMinAmountOut(Get(Get(quoteOutcome).quote).amountOut,
                                                   ScriptConfig.maxSlippageBps),
                         deadline |-> now' + DeadlineSeconds,
                         signer |-> Signer])
    /\ exPc' = "approve"
    /\ calls' = calls + 1
    /\ exOutcome' = None
    /\ swapData' = None
    /\ elapsed' = 0
    /\ observed' = {}
    /\ gasAnswer' = None
    /\ UNCHANGED <<allowance, approvals, approveCalls, submitted, outsideExecutor>>

QuoteExecuteNext ==
    \/ GetQuoteCall
    \/ GetQuoteValidate
    \/ BackendRequest
    \/ RetrySleepDone
    \/ ExecuteQuote
    \/ ApproveTokenCheck
    \/ ApproveTokenWait
    \/ ExactInputSingle
    \/ TxWait

QuoteExecuteSpec == ExecutorInit /\ [][QuoteExecuteNext]_vars

\* C38: a swap the Uniswap V3 executor submits for an opportunity quoted by the
\* Uniswap V3 source is on the fee tier whose quote produced the accepted amountOut.
C38_SameFeeTier ==
    \A i \in 1..Len(submitted) :
        (submitted[i].executor = "Uniswap V3" /\ gqPc = "resolved" /\ Get(source) = "Uniswap V3")
            => submitted[i].fee = bestFeeTier

\* the default tier gave the best quote and the swap went to it
C38_DefaultTierSwapReached ==
    /\ gqPc = "resolved" /\ Get(source) = "Uniswap V3"
    /\ bestFeeTier = DefaultFeeTier
    /\ requestCount[2] > 0
    /\ Len(submitted) = 1
    /\ submitted[1].fee = DefaultFeeTier
    /\ submitted[1].amountOutMinimum =
          Some(calculateMinAmountOut(Get(bestQuote), ScriptConfig.maxSlippageBps))


\* CowSwap's execute has returned success = false for a call whose order the
\* order book had accepted
FailedAfterOrder ==
    /\ OrderPosted
    /\ exPc = "idle"
    /\ IsSome(exOutcome)
    /\ ~Get(exOutcome).threw
    /\ ~Get(Get(exOutcome).value).success

\* the order of the call is over: the order book reported it cancelled or
\* expired, or its validTo has passed
OrderTerminal ==
    \/ observed \cap {"cancelled", "expired"} # {}
    \/ now >= submitted[Len(submitted)].request.deadline

\* C39: whenever CowSwapExecutor.execute returns success = false after its order
\* was accepted by the order book, that order is cancelled or expired, so that no
\* fill can follow the failure reported to the engine.
C39_FailedMeansNoLiveOrder ==
    FailedAfterOrder => OrderTerminal

\* the order book reported the order expired and execute returned the failure
C39_ExpiredFailureReached ==
    /\ FailedAfterOrder
    /\ "expired" \in observed
    /\ Get(Get(exOutcome).value).error = Some([message |-> "Order expired"])


(***************************************************************************)
(* config/dex: getNetworkDexConfig, applyEnvOverrides, getDexConfig        *)
(***************************************************************************)
\* chain ids config/dex.json has a network for, and the chain ids callers ask for
KnownChainIds == {1, 137}
CalledChainIds == KnownChainIds \cup {5}

\* the uniswapV4 section of a network: each address set or left empty
UniswapV4Choices ==
    [quoterAddress : {"", "0xQuoter"}, poolManagerAddress : {"", "0xPoolManager"},
     universalRouterAddress : {"", "0xUniversalRouter"}]

\* contents of config/dex.json, read anew by every loadDexConfig
DexJsonChoices ==
    [KnownChainIds -> [name : {"network"}, uniswapV4 : UniswapV4Choices]]

\* process.env: the three Uniswap V4 overrides, "" when unset
EnvChoices ==
    {[UNISWAP_V4_QUOTER_ADDRESS |-> "", UNISWAP_V4_POOL_MANAGER_ADDRESS |-> "",
      UNISWAP_V4_UNIVERSAL_ROUTER_ADDRESS |-> ""],
     [UNISWAP_V4_QUOTER_ADDRESS |-> "0xEnvQuoter", UNISWAP_V4_POOL_MANAGER_ADDRESS |-> "",
      UNISWAP_V4_UNIVERSAL_ROUTER_ADDRESS |-> ""],
     [UNISWAP_V4_QUOTER_ADDRESS |-> "0xEnvQuoter",
      UNISWAP_V4_POOL_MANAGER_ADDRESS |-> "0xEnvPoolManager",
      UNISWAP_V4_UNIVERSAL_ROUTER_ADDRESS |-> "0xEnvUniversalRouter"]}

\* getNetworkDexConfig(chainId, requireV4) on the networks loadDexConfig read
getNetworkDexConfig(networks, chainId, requireV4) ==
    IF chainId \notin DOMAIN networks
    THEN Threw("No DEX configuration found for chain ID")
    ELSE LET v4Config == networks[chainId].uniswapV4
         IN  IF requireV4 /\ v4Config.quoterAddress = ""
             THEN Threw("Uniswap V4 Quoter address is required but not configured")
             ELSE IF requireV4 /\ v4Config.poolManagerAddress = ""
             THEN Threw("Uniswap V4 PoolManager address is required but not configured")
             ELSE IF requireV4 /\ v4Config.universalRouterAddress = ""
             THEN Threw("Uniswap V4 Universal Router address is required but not configured")
             ELSE Returned(Some(networks[chainId]))

\* applyEnvOverrides: an override that is set replaces the address of the file
applyEnvOverrides(networkConfig, env) ==
    [networkConfig EXCEPT
        !.uniswapV4.quoterAddress =
            IF env.UNISWAP_V4_QUOTER_ADDRESS # "" THEN env.UNISWAP_V4_QUOTER_ADDRESS ELSE @,
        !.uniswapV4.poolManagerAddress =
            IF env.UNISWAP_V4_POOL_MANAGER_ADDRESS # ""
            THEN env.UNISWAP_V4_POOL_MANAGER_ADDRESS ELSE @,
        !.uniswapV4.universalRouterAddress =
            IF env.UNISWAP_V4_UNIVERSAL_ROUTER_ADDRESS # ""
            THEN env.UNISWAP_V4_UNIVERSAL_ROUTER_ADDRESS ELSE @]

\* the variables getDexConfig leaves alone
outsideConfig == <<setup, best, sourceVars, executorVars, pc, balances, runVars, searchVars,
                   execVars, logVars, result, returned, retryVars>>

\* getDexConfig(chainId, requireV4), whole: the cached instance when it was
\* loaded for this chain id, otherwise the network of the file, validated, with
\* the overrides of the environment, which becomes the cached instance
GetDexConfig ==
    \E chainId \in CalledChainIds, requireV4 \in BOOLEAN,
       networks \in DexJsonChoices, env \in EnvChoices :
        /\ fnCall' = Some([fn |-> "getDexConfig", chainId |-> chainId,
                           requireV4 |-> requireV4])
        /\ IF IsSome(networkDexConfigInstance) /\ currentChainId = Some(chainId)
           THEN /\ fnResult' = Some(Returned(networkDexConfigInstance))
                /\ UNCHANGED cacheVars
           ELSE LET baseConfig == getNetworkDexConfig(networks, chainId, requireV4)
                IN  IF baseConfig.threw
                    THEN /\ fnResult' = Some(baseConfig)
                         /\ UNCHANGED cacheVars
                    ELSE LET configWithOverrides ==
                                 applyEnvOverrides(Get(baseConfig.value), env)
                         IN  /\ networkDexConfigInstance' = Some(configWithOverrides)
                             /\ currentChainId' = Some(chainId)
                             /\ fnResult' = Some(Returned(Some(configWithOverrides)))
        /\ UNCHANGED outsideConfig

ConfigInit ==
    /\ config = ScriptConfig
    /\ executors = ScriptExecutors
    /\ EngineIdle
    /\ best = None
    /\ SourceIdle
    /\ ExecutorIdle
    /\ allowance = [s \in {} |-> 0]
    /\ CalcIdle

ConfigSpec == ConfigInit /\ [][GetDexConfig]_vars

\* C40: after any sequence of getDexConfig calls, a call getDexConfig(chainId,
\* requireV4 = true) that returns normally returns a configuration whose Uniswap V4
\* quoter, pool-manager and universal-router addresses are all non-empty.
C40_CacheKeepsV4Requirement ==
    ( /\ Called("getDexConfig")
      /\ Get(fnCall).requireV4
      /\ ~Get(fnResult).threw )
    => LET v4Config == Get(Get(fnResult).value).uniswapV4
       IN  /\ v4Config.quoterAddress # ""
           /\ v4Config.poolManagerAddress # ""
           /\ v4Config.universalRouterAddress # ""

\* the second half of C40: a failed call leaves the cached instance unchanged
C40_FailedCallKeepsCache ==
    [][Get(fnResult').threw => UNCHANGED cacheVars]_vars

\* a call that requires Uniswap V4 failed on a network without a quoter address
\* and the cache kept the instance of another chain
C40_FailedCallReached ==
    /\ Called("getDexConfig")
    /\ Get(fnCall).requireV4
    /\ Get(fnResult) = Threw("Uniswap V4 Quoter address is required but not configured")
    /\ IsSome(networkDexConfigInstance)
    /\ currentChainId # Some(Get(fnCall).chainId)

====
